---- MODULE Spec2Model ----
(***************************************************************************)
(* A model of the stori-challenge ingestion pipeline:                      *)
(*   - DynamoTransactionsRepository.Save (batch writes with retry),        *)
(*   - CSVTransactionLoader.LoadTransactions (streaming CSV parse),        *)
(*   - DefaultProcessor.ProcessFile and the Lambda Handler loop.           *)
(*   - the field parsers of the loader, applied to single fields,          *)
(*   - DefaultSummarizer.CalculateSummary.                                 *)
(* Each component has its own specification (SpecSave, SpecLoad, SpecPipe, *)
(* SpecParse, SpecSum); the variables of the other components stay         *)
(* untouched.                                                              *)
(***************************************************************************)
EXTENDS Integers, Sequences, FiniteSets, TLC

\* ------------------------------------------------------------------------
\* Bounds of the model
\* ------------------------------------------------------------------------

\* Save is called with b*batchSize + r transactions, b <= MaxBatches, r <= MaxRem.
MaxBatches == 2

MaxRem == 1

\* The store leaves at most MaxUnprocessed items of a request unprocessed,
\* or the whole request.
MaxUnprocessed == 1

\* LoadTransactions reads inputs of at most MaxLines lines (header included).
MaxLines == 3

\* An S3 event holds at most MaxRecords records.
MaxRecords == 2

\* The loader stub of the pipeline returns at most MaxTxns transactions.
MaxTxns == 1

\* Handler is invoked at most MaxInvocations times in one process.
MaxInvocations == 2

\* getProcessor is called by at most MaxGoroutines goroutines at a time.
MaxGoroutines == 3

\* The id and amount fields given to the field parsers have at most
\* MaxFieldLen characters.
MaxFieldLen == 3

\* CalculateSummary is given at most MaxSumTxns transactions.
MaxSumTxns == 3

\* The floating-point numbers of the model keep Precision significant bits
\* (float64 keeps 53).
Precision == 13

\* ------------------------------------------------------------------------
\* Program constants
\* ------------------------------------------------------------------------

\* const batchSize = 25 (DynamoDB BatchWriteItem limit)
batchSize == 25

\* maxRetries := 3
maxRetries == 3

VARIABLES
    \* --- DynamoTransactionsRepository.Save ---
    savePc,            \* position inside Save / saveBatch / handleUnprocessedItems
    saveLen,           \* len(transactions) of the running Save call
    i,                 \* loop variable of Save: start index of the current batch
    writeRequests,     \* saveBatch: the write requests built for the current batch
    request,           \* RequestItems of the BatchWriteItem call in flight / last made
    callKind,          \* "initial" (saveBatch) or "retry" (handleUnprocessedItems)
    result,            \* what the last BatchWriteItem call returned
    unprocessedItems,  \* handleUnprocessedItems: the items still to write
    retryCount,        \* handleUnprocessedItems: retries made for the current batch
    nextKey,           \* number of UUIDs generated so far (uuid.New)
    store,             \* the table: the set of items the store has written
    saveErr,           \* what Save returned: NoErr while running
    \* history of the running Save call, for the properties
    ackCount,          \* per input transaction: how often the store acknowledged it
    submitted,         \* every item ever put in a request
    batchCalls,        \* BatchWriteItem calls made for the current batch
    batchResponses,    \* sizes of the unprocessed sets returned for the current batch
    initialBatches,    \* <<lo, hi>> of every batch submitted by saveBatch, in order
    \* --- CSVTransactionLoader.LoadTransactions ---
    loadPc,            \* position inside LoadTransactions
    input,             \* the reader's content: the sequence of its lines
    pos,               \* lines of the input the csv reader has consumed
    lineNumber,        \* LoadTransactions: lineNumber
    transactions,      \* LoadTransactions: the slice being built
    loadResult,        \* what LoadTransactions returned: Nil or a list
    loadErr,           \* the error LoadTransactions returned: NoErr while running
    ctxDone,           \* the caller's context is cancelled
    currentYear,       \* loader.currentYear, set when the loader is constructed
    clock,             \* the year the wall clock shows (time.Now().Year())
    \* --- the field parsers of the loader, applied to one field ---
    fieldKind,         \* which parser ran last: "ID", "date", "amount", "none" before
    field,             \* the field it was given
    fieldResult,       \* what it returned
    \* --- DefaultSummarizer.CalculateSummary ---
    sumPc,             \* "idle" before the call, "done" after it
    sumIn,             \* the transactions CalculateSummary was given
    summary,           \* the Summary it returned
    \* --- Handler, processRecord and DefaultProcessor.ProcessFile ---
    pipePc,            \* position inside Handler / processRecord / ProcessFile
    event,             \* event.Records of the running Handler invocation
    recIdx,            \* Handler: 1-based index of the record being processed
    stats,             \* Handler: the ProcessingStats
    handlerErr,        \* the error the last Handler invocation returned
    invocations,       \* Handler invocations started in this process
    processorOnce,     \* processorOnce has run
    processor,         \* the package variable processor
    initError,         \* the package variable initError
    summaryFile,       \* ProcessFile: summaryFile
    txns,              \* ProcessFile: txns
    summaryData,       \* ProcessFile: summaryData
    cur,               \* history: what happened so far for the record in progress
    log,               \* history: what happened for each finished record of the event
    \* --- concurrent calls of getProcessor ---
    gPc,               \* position of each goroutine inside getProcessor / Once.Do
    onceM,             \* processorOnce's mutex: 0 when free, else the goroutine holding it
    buildOk,           \* whether the running buildProcessor succeeds
    builds,            \* history: how often buildProcessor has run
    firstBuilt,        \* history: what the first buildProcessor returned
    got                \* what getProcessor returned to each goroutine

saveVars == <<savePc, saveLen, i, writeRequests, request, callKind, result,
              unprocessedItems, retryCount, nextKey, store, saveErr, ackCount,
              submitted, batchCalls, batchResponses, initialBatches>>

loadVars == <<loadPc, input, pos, lineNumber, transactions, loadResult, loadErr,
              ctxDone, currentYear>>

pipeVars == <<pipePc, event, recIdx, stats, handlerErr, invocations, processorOnce,
              processor, initError, summaryFile, txns, summaryData, cur, log>>

parseVars == <<fieldKind, field, fieldResult>>

sumVars == <<sumPc, sumIn, summary>>

onceVars == <<gPc, onceM, buildOk, builds, firstBuilt, got>>

\* The variables of Handler that getProcessor does not touch.
handlerVars == <<pipePc, event, recIdx, stats, handlerErr, invocations, summaryFile,
                 txns, summaryData, cur, log>>

vars == <<saveVars, loadVars, pipeVars, parseVars, sumVars, onceVars, clock>>

\* What an action of one component leaves alone: the other components and
\* the clock.
SaveOnly == UNCHANGED <<loadVars, pipeVars, parseVars, sumVars, onceVars, clock>>

LoadOnly == UNCHANGED <<saveVars, pipeVars, parseVars, sumVars, onceVars, clock>>

PipeOnly == UNCHANGED <<saveVars, loadVars, parseVars, sumVars, onceVars, clock>>

ParseOnly == UNCHANGED <<saveVars, loadVars, pipeVars, sumVars, onceVars, clock>>

SumOnly == UNCHANGED <<saveVars, loadVars, pipeVars, parseVars, onceVars, clock>>

OnceOnly == UNCHANGED <<saveVars, loadVars, handlerVars, parseVars, sumVars, clock>>

\* ------------------------------------------------------------------------
\* Helpers
\* ------------------------------------------------------------------------

Min(a, b) == IF a < b THEN a ELSE b

\* ceil(n / d) for d > 0
CeilDiv(n, d) == (n + d - 1) \div d

\* The subsets of S with at most k elements.
RECURSIVE SubsetsUpTo(_, _)
SubsetsUpTo(S, k) ==
    IF k = 0 THEN {{}}
    ELSE LET P == SubsetsUpTo(S, k - 1)
         IN  P \cup {p \cup {x} : p \in P, x \in S}

\* The lengths of the inputs Save is called with.
InputLens == {b * batchSize + r : b \in 0..MaxBatches, r \in 0..MaxRem}

NoErr == [kind |-> "none"]

NoResult == [err |-> FALSE, UnprocessedItems |-> {}]

\* ------------------------------------------------------------------------
\* DynamoTransactionsRepository.Save
\* ------------------------------------------------------------------------

InitSave ==
    /\ savePc = "idle"
    /\ saveLen = 0
    /\ i = 0
    /\ writeRequests = {}
    /\ request = {}
    /\ callKind = "none"
    /\ result = NoResult
    /\ unprocessedItems = {}
    /\ retryCount = 0
    /\ nextKey = 0
    /\ store = {}
    /\ saveErr = NoErr
    /\ ackCount = <<>>
    /\ submitted = {}
    /\ batchCalls = 0
    /\ batchResponses = <<>>
    /\ initialBatches = <<>>

\* Save returns; err is what it returns (NoErr for nil).
SaveReturn(err) ==
    /\ savePc' = "done"
    /\ saveErr' = err

\* Save is called with n transactions: an empty input returns nil at once,
\* otherwise the loop starts at i = 0.
SaveCall(n) ==
    /\ savePc = "idle"
    /\ saveLen' = n
    /\ ackCount' = [t \in 1..n |-> 0]
    /\ i' = 0
    /\ IF n = 0
          THEN SaveReturn(NoErr)
          ELSE savePc' = "loop" /\ saveErr' = saveErr
    /\ UNCHANGED <<writeRequests, request, callKind, result, unprocessedItems,
                   retryCount, nextKey, store, submitted, batchCalls,
                   batchResponses, initialBatches>>
    /\ SaveOnly

\* The write requests saveBatch builds for transactions[lo+1..hi] (1-based):
\* each transaction gets a freshly generated key.
BuildWriteRequests(lo, hi) ==
    {[tx |-> t, key |-> nextKey + (t - lo)] : t \in (lo + 1)..hi}

\* A BatchWriteItem call is made with the given items.
Submit(items, kind) ==
    /\ request' = items
    /\ callKind' = kind
    /\ submitted' = submitted \cup items
    /\ batchCalls' = (IF kind = "initial" THEN 0 ELSE batchCalls) + 1
    /\ savePc' = "call"

\* saveBatch returns nil to Save's loop: its locals are gone and the loop
\* variable advances (i += batchSize).
BatchDone ==
    /\ i' = i + batchSize
    /\ savePc' = "loop"
    /\ writeRequests' = {}
    /\ request' = {}
    /\ unprocessedItems' = {}
    /\ retryCount' = 0
    /\ result' = NoResult
    /\ UNCHANGED saveErr

\* A plausible slip: the error names the number of the batch.
ErrIndexBatchNumber == i \div batchSize

\* The index in Save's error "failed to save batch starting at index %d": i
ErrIndex == i

\* A plausible slip: the slice end is not clamped to len(transactions).
BatchEndNoClamp == i + batchSize

\* end := i + batchSize; if end > len(transactions) { end = len(transactions) }
BatchEnd == Min(i + batchSize, saveLen)

\* One turn of Save's loop: the loop test, the slice, and saveBatch up to its
\* BatchWriteItem call.
SaveLoop ==
    /\ savePc = "loop"
    /\ IF i < saveLen
          THEN LET end == BatchEnd
                   reqs == BuildWriteRequests(i, end)
               IN  /\ writeRequests' = reqs
                   /\ nextKey' = nextKey + (end - i)
                   /\ Submit(reqs, "initial")
                   /\ batchResponses' = <<>>
                   /\ initialBatches' = Append(initialBatches, <<i + 1, end>>)
                   /\ UNCHANGED saveErr
          ELSE /\ SaveReturn(NoErr)
               /\ UNCHANGED <<writeRequests, nextKey, request, callKind, submitted,
                              batchCalls, batchResponses, initialBatches>>
    /\ UNCHANGED <<saveLen, i, result, unprocessedItems, retryCount, store, ackCount>>
    /\ SaveOnly

\* What the store may leave unprocessed of a request.
UnprocessedChoices(items) == SubsetsUpTo(items, MaxUnprocessed) \cup {items}

\* The store serves the request in flight: it writes the items it does not
\* return as unprocessed.
BatchWriteItemOk(unprocessed) ==
    /\ savePc = "call"
    /\ unprocessed \subseteq request
    /\ store' = store \cup (request \ unprocessed)
    /\ ackCount' = [t \in 1..saveLen |->
                      ackCount[t] + Cardinality({it \in request \ unprocessed : it.tx = t})]
    /\ result' = [err |-> FALSE, UnprocessedItems |-> unprocessed]
    /\ batchResponses' = Append(batchResponses, Cardinality(unprocessed))
    /\ savePc' = "ret"
    /\ UNCHANGED <<saveLen, i, writeRequests, request, callKind, unprocessedItems,
                   retryCount, nextKey, saveErr, submitted, batchCalls,
                   initialBatches>>
    /\ SaveOnly

\* The BatchWriteItem call in flight fails (throttling, network, cancelled context).
BatchWriteItemErr ==
    /\ savePc = "call"
    /\ result' = [err |-> TRUE, UnprocessedItems |-> {}]
    /\ savePc' = "ret"
    /\ UNCHANGED <<saveLen, i, writeRequests, request, callKind, unprocessedItems,
                   retryCount, nextKey, store, saveErr, ackCount, submitted,
                   batchCalls, batchResponses, initialBatches>>
    /\ SaveOnly

\* A plausible slip: the error of the call is dropped.
RequestFailedIgnored == FALSE

\* if err != nil, after a BatchWriteItem call
RequestFailed == result.err

\* saveBatch after its BatchWriteItem call returned.
SaveBatchRet ==
    /\ savePc = "ret"
    /\ callKind = "initial"
    /\ IF RequestFailed
          THEN /\ SaveReturn([kind |-> "execute", index |-> ErrIndex])
               /\ UNCHANGED <<i, writeRequests, request, result, unprocessedItems,
                              retryCount>>
          ELSE IF result.UnprocessedItems # {}
                  THEN /\ unprocessedItems' = result.UnprocessedItems
                       /\ retryCount' = 0
                       /\ savePc' = "retry"
                       /\ UNCHANGED <<i, writeRequests, request, result, saveErr>>
                  ELSE BatchDone
    /\ UNCHANGED <<saveLen, callKind, nextKey, store, ackCount, submitted, batchCalls,
                   batchResponses, initialBatches>>
    /\ SaveOnly

\* A plausible slip: every retry resubmits the whole batch.
RetryItemsWholeBatch == writeRequests

\* A plausible slip: a retried item is rebuilt under a newly generated key.
RetryItemsNewKeys == {[tx |-> it.tx, key |-> it.key + batchSize] : it \in unprocessedItems}

\* The items handleUnprocessedItems puts in a retry request.
RetryItems == unprocessedItems

\* A plausible slip: the retry budget is counted per unprocessed item.
RetryCondPerItem ==
    unprocessedItems # {} /\ retryCount < maxRetries * Cardinality(unprocessedItems)

\* A plausible slip: an off-by-one in the retry budget.
RetryCondOffByOne == unprocessedItems # {} /\ retryCount <= maxRetries

\* A plausible slip: the loop retries without looking at what is left.
RetryCondIgnoreEmpty == retryCount < maxRetries

\* for len(unprocessedItems) > 0 && retryCount < maxRetries
RetryCond == unprocessedItems # {} /\ retryCount < maxRetries

\* A plausible slip: the error reports the size of the batch.
ErrCountBatch == Cardinality(writeRequests)

\* len(unprocessedItems[r.tableName]) in the error of handleUnprocessedItems
ErrCount == Cardinality(unprocessedItems)

\* handleUnprocessedItems: the loop test, and either the next retry call or
\* the code after the loop.
RetryLoop ==
    /\ savePc = "retry"
    /\ IF RetryCond
          THEN /\ retryCount' = retryCount + 1
               /\ Submit(RetryItems, "retry")
               /\ UNCHANGED <<i, writeRequests, result, unprocessedItems, saveErr>>
          ELSE /\ IF unprocessedItems # {}
                     THEN /\ SaveReturn([kind |-> "unprocessed", index |-> ErrIndex,
                                         retries |-> maxRetries,
                                         count |-> ErrCount])
                          /\ UNCHANGED <<i, writeRequests, request, result,
                                         unprocessedItems, retryCount>>
                     ELSE BatchDone
               /\ UNCHANGED <<callKind, submitted, batchCalls>>
    /\ UNCHANGED <<saveLen, nextKey, store, ackCount, batchResponses, initialBatches>>
    /\ SaveOnly

\* handleUnprocessedItems after a retry call returned.
RetryRet ==
    /\ savePc = "ret"
    /\ callKind = "retry"
    /\ IF RequestFailed
          THEN /\ SaveReturn([kind |-> "retry", index |-> ErrIndex, attempt |-> retryCount])
               /\ UNCHANGED unprocessedItems
          ELSE /\ unprocessedItems' = result.UnprocessedItems
               /\ savePc' = "retry"
               /\ UNCHANGED saveErr
    /\ UNCHANGED <<saveLen, i, writeRequests, request, callKind, result, retryCount,
                   nextKey, store, ackCount, submitted, batchCalls, batchResponses,
                   initialBatches>>
    /\ SaveOnly

NextSave ==
    \/ savePc = "idle" /\ \E n \in InputLens : SaveCall(n)
    \/ SaveLoop
    \/ savePc = "call" /\ \E u \in UnprocessedChoices(request) : BatchWriteItemOk(u)
    \/ BatchWriteItemErr
    \/ SaveBatchRet
    \/ RetryLoop
    \/ RetryRet

\* ------------------------------------------------------------------------
\* CSVTransactionLoader
\* ------------------------------------------------------------------------
\* A string is a sequence of one-character strings; the input of
\* LoadTransactions is the sequence of its lines (without the line ends).
\* The alphabet of the inputs holds no quote character, no tab, no letter
\* that starts a special float ("inf", "nan", exponents, hex).

\* FieldsPerRecord: 3 in DefaultCSVConfig
FieldsPerRecord == 3

\* A nil slice, and a slice holding list.
Nil == [nil |-> TRUE, list |-> <<>>]

Slice(list) == [nil |-> FALSE, list |-> list]

\* time.Time{}: the zero date.
ZeroDate == [year |-> 1, month |-> 1, day |-> 1]

\* Transaction{}: the zero value.
ZeroTransaction == [ID |-> 0, Date |-> ZeroDate, Amount |-> 0, AccountID |-> ""]

Fail == [ok |-> FALSE, val |-> 0]

Ok(v) == [ok |-> TRUE, val |-> v]

DigitChars == {"0", "1", "2", "3", "4", "5", "6", "7", "8", "9"}

DigitVal(c) ==
    CASE c = "0" -> 0 [] c = "1" -> 1 [] c = "2" -> 2 [] c = "3" -> 3 [] c = "4" -> 4
      [] c = "5" -> 5 [] c = "6" -> 6 [] c = "7" -> 7 [] c = "8" -> 8 [] c = "9" -> 9

IsDigits(s) == \A k \in 1..Len(s) : s[k] \in DigitChars

\* The value of a string of decimal digits.
RECURSIVE DigitsVal(_)
DigitsVal(s) ==
    IF s = <<>> THEN 0
    ELSE 10 * DigitsVal(SubSeq(s, 1, Len(s) - 1)) + DigitVal(s[Len(s)])

\* strings.Split(s, c)
RECURSIVE SplitOn(_, _)
SplitOn(s, c) ==
    IF \A k \in 1..Len(s) : s[k] # c
       THEN <<s>>
       ELSE LET k == CHOOSE j \in 1..Len(s) : s[j] = c /\ \A m \in 1..(j - 1) : s[m] # c
            IN  <<SubSeq(s, 1, k - 1)>> \o SplitOn(SubSeq(s, k + 1, Len(s)), c)

RECURSIVE TrimLeft(_)
TrimLeft(s) == IF s # <<>> /\ s[1] = " " THEN TrimLeft(Tail(s)) ELSE s

RECURSIVE TrimRight(_)
TrimRight(s) ==
    IF s # <<>> /\ s[Len(s)] = " " THEN TrimRight(SubSeq(s, 1, Len(s) - 1)) ELSE s

\* strings.TrimSpace
TrimSpace(s) == TrimRight(TrimLeft(s))

RECURSIVE StripZeros(_)
StripZeros(s) == IF Len(s) > 1 /\ s[1] = "0" THEN StripZeros(Tail(s)) ELSE s

\* s <= t for two digit strings of the same length.
RECURSIVE DigitsLeq(_, _)
DigitsLeq(s, t) ==
    IF s = <<>> THEN TRUE
    ELSE IF DigitVal(s[1]) # DigitVal(t[1]) THEN DigitVal(s[1]) < DigitVal(t[1])
    ELSE DigitsLeq(Tail(s), Tail(t))

\* 1<<32 - 1
MaxUint32Digits == <<"4", "2", "9", "4", "9", "6", "7", "2", "9", "5">>

\* strconv.ParseUint(s, 10, 32): digits only, at most 2^32 - 1.
ParseUint32(s) ==
    IF s = <<>> \/ ~IsDigits(s) THEN Fail
    ELSE LET d == StripZeros(s)
         IN  IF Len(d) > Len(MaxUint32Digits) THEN Fail
             ELSE IF Len(d) = Len(MaxUint32Digits) /\ ~DigitsLeq(d, MaxUint32Digits)
                     THEN Fail
             ELSE Ok(DigitsVal(d))

\* strconv.ParseFloat(s, 64) on signed decimal literals: [+-] digits [. digits]
\* with at least one digit.  The value is kept in hundredths.
ParseFloat(s) ==
    LET signed == s # <<>> /\ s[1] \in {"+", "-"}
        body   == IF signed THEN Tail(s) ELSE s
        parts  == SplitOn(body, ".")
        ip     == parts[1]
        fp     == IF Len(parts) = 2 THEN parts[2] ELSE <<>>
        mag    == 100 * DigitsVal(ip)
                  + (IF Len(fp) = 0 THEN 0
                     ELSE IF Len(fp) = 1 THEN 10 * DigitsVal(fp)
                     ELSE DigitsVal(SubSeq(fp, 1, 2)))
    IN  IF Len(parts) > 2 \/ ~IsDigits(ip) \/ ~IsDigits(fp) \/ Len(ip) + Len(fp) = 0
           THEN Fail
           ELSE Ok(IF signed /\ s[1] = "-" THEN 0 - mag ELSE mag)

\* strconv.Itoa of a four-digit year.
Itoa(n) ==
    LET d(k) == CHOOSE c \in DigitChars : DigitVal(c) = k
    IN  <<d(n \div 1000), d((n \div 100) % 10), d((n \div 10) % 10), d(n % 10)>>

IsLeap(y) == y % 4 = 0 /\ (y % 100 # 0 \/ y % 400 = 0)

\* daysIn(month, year) of package time
DaysIn(m, y) ==
    IF m = 2 THEN (IF IsLeap(y) THEN 29 ELSE 28)
    ELSE IF m \in {4, 6, 9, 11} THEN 30 ELSE 31

\* getnum(s, false) of package time: one or two leading digits.
GetNum(s) ==
    IF s = <<>> \/ s[1] \notin DigitChars THEN [ok |-> FALSE, val |-> 0, rest |-> s]
    ELSE IF Len(s) < 2 \/ s[2] \notin DigitChars
            THEN [ok |-> TRUE, val |-> DigitVal(s[1]), rest |-> Tail(s)]
            ELSE [ok |-> TRUE, val |-> DigitsVal(SubSeq(s, 1, 2)),
                  rest |-> SubSeq(s, 3, Len(s))]

\* time.Parse("1/2/2006", s): month "/" day "/" four-digit year and nothing
\* after it; the month and the day must exist.
TimeParse(s) ==
    LET mo == GetNum(s)
        r1 == mo.rest
        da == GetNum(IF r1 # <<>> THEN Tail(r1) ELSE <<>>)
        r2 == da.rest
        yr == IF r2 # <<>> THEN Tail(r2) ELSE <<>>
    IN  IF /\ mo.ok /\ r1 # <<>> /\ r1[1] = "/"
           /\ da.ok /\ r2 # <<>> /\ r2[1] = "/"
           /\ Len(yr) = 4 /\ IsDigits(yr)
           /\ mo.val \in 1..12
           /\ da.val \in 1..DaysIn(mo.val, DigitsVal(yr))
           THEN Ok([year |-> DigitsVal(yr), month |-> mo.val, day |-> da.val])
           ELSE Fail

\* parseIDOptimized
parseIDOptimized(idStr) ==
    IF idStr = <<>> THEN Fail
    ELSE IF ParseUint32(idStr).ok THEN ParseUint32(idStr)
    ELSE IF TrimSpace(idStr) = <<>> THEN Fail
    ELSE ParseUint32(TrimSpace(idStr))

\* A plausible slip: the year is read from the clock at each parse.
YearOfClock == clock

\* The year parseDateOptimized appends: loader.currentYear.
LoaderYear == currentYear

\* parseDateOptimized: the year of the loader is appended to the field and
\* the whole is parsed with the layout "1/2/2006".
parseDateOptimized(dateStr) ==
    IF dateStr = <<>> THEN Fail
    ELSE TimeParse(dateStr \o <<"/">> \o Itoa(LoaderYear))

\* parseAmountOptimized
parseAmountOptimized(amountStr) ==
    IF amountStr = <<>> THEN Fail
    ELSE IF amountStr[1] # "+" /\ amountStr[1] # "-" THEN ParseFloat(amountStr)
    ELSE IF amountStr[1] = "+" THEN ParseFloat(Tail(amountStr))
    ELSE ParseFloat(amountStr)

\* parseRecord: the fields are parsed in the order ID, date, amount; the
\* first failure is the one reported.
parseRecord(record) ==
    IF Len(record) # 3 THEN [ok |-> FALSE, tx |-> ZeroTransaction, field |-> "count"]
    ELSE LET id  == parseIDOptimized(record[1])
             dt  == parseDateOptimized(record[2])
             amt == parseAmountOptimized(record[3])
         IN  IF ~id.ok THEN [ok |-> FALSE, tx |-> ZeroTransaction, field |-> "ID"]
             ELSE IF ~dt.ok THEN [ok |-> FALSE, tx |-> ZeroTransaction, field |-> "date"]
             ELSE IF ~amt.ok THEN [ok |-> FALSE, tx |-> ZeroTransaction, field |-> "amount"]
             ELSE [ok |-> TRUE, field |-> "",
                   tx |-> [ID |-> id.val, Date |-> dt.val, Amount |-> amt.val,
                           AccountID |-> ""]]

\* The record csv.Reader makes of a non-empty line: the fields between the
\* commas, leading spaces trimmed (TrimLeadingSpace).
csvRecord(line) ==
    LET fs == SplitOn(line, ",") IN [k \in 1..Len(fs) |-> TrimLeft(fs[k])]

\* csv.Reader skips empty lines: the next line it reads after p, 0 at EOF.
NextRecordPos(p) ==
    IF \A k \in (p + 1)..Len(input) : input[k] = <<>> THEN 0
    ELSE CHOOSE k \in (p + 1)..Len(input) :
            input[k] # <<>> /\ \A m \in (p + 1)..(k - 1) : input[m] = <<>>

\* The lines the inputs are made of.
HeaderLine == <<"I", "d", ",", "D", "a", "t", "e", ",", "T", "x">>

ValidLine == <<"1", ",", "7", "/", "1", "5", ",", "+", "6", "0", ".", "5">>

FullYearLine == <<"2", ",", "1", "/", "5", "/", "2", "0", "2", "2", ",", "-", "1", "0">>

BadIDLine == <<"a", "b", "c", ",", "7", "/", "1", "5", ",", "1">>

BadDateLine == <<"4", ",", "1", "3", "/", "1", ",", "5">>

BadAmountLine == <<"5", ",", "7", "/", "2", "8", ",", "a", "b", "c">>

TwoFieldLine == <<"3", ",", "8", "/", "2">>

FourFieldLine == <<"6", ",", "8", "/", "2", ",", "1", ",", "x">>

ZeroIDLine == <<"0", ",", "7", "/", "1", "5", ",", "1">>

BlankLine == <<>>

LinePool == {HeaderLine, ValidLine, FullYearLine, BadIDLine, BadDateLine,
             BadAmountLine, TwoFieldLine, FourFieldLine, ZeroIDLine, BlankLine}

\* The contents of the readers LoadTransactions is called with.
Inputs == UNION {[1..n -> LinePool] : n \in 0..MaxLines}

\* The years the clock can show while the program runs.
Years == {2023, 2024}

\* The clock starts in the first of these years.
InitClock == clock = CHOOSE y \in Years : \A z \in Years : y <= z

\* The clock moves on to the next year.
Tick ==
    /\ clock + 1 \in Years
    /\ clock' = clock + 1
    /\ UNCHANGED <<saveVars, loadVars, pipeVars, parseVars, sumVars, onceVars>>

InitLoad ==
    /\ loadPc = "unbuilt"
    /\ input = <<>>
    /\ pos = 0
    /\ lineNumber = 0
    /\ transactions = <<>>
    /\ loadResult = Nil
    /\ loadErr = NoErr
    /\ ctxDone = FALSE
    /\ currentYear = 0

\* NewCSVTransactionLoader: currentYear is time.Now().Year().
NewCSVTransactionLoader ==
    /\ loadPc = "unbuilt"
    /\ currentYear' = clock
    /\ loadPc' = "idle"
    /\ UNCHANGED <<input, pos, lineNumber, transactions, loadResult, loadErr, ctxDone>>
    /\ LoadOnly

\* The caller cancels the context.
Cancel ==
    /\ loadPc \in {"idle", "header", "loop"}
    /\ ~ctxDone
    /\ ctxDone' = TRUE
    /\ UNCHANGED <<loadPc, input, pos, lineNumber, transactions, loadResult, loadErr,
                   currentYear>>
    /\ LoadOnly

\* LoadTransactions returns (res, err).
LoadReturn(res, err) ==
    /\ loadPc' = "done"
    /\ loadResult' = res
    /\ loadErr' = err

\* LoadTransactions is called: the early context validation.
LoadCall(in) ==
    /\ loadPc = "idle"
    /\ input' = in
    /\ pos' = 0
    /\ IF ctxDone
          THEN LoadReturn(Nil, [kind |-> "context"])
          ELSE loadPc' = "header" /\ UNCHANGED <<loadResult, loadErr>>
    /\ UNCHANGED <<lineNumber, transactions, ctxDone, currentYear>>
    /\ LoadOnly

\* The header row is read and dropped; a read error ends the load.
ReadHeader ==
    /\ loadPc = "header"
    /\ LET p == NextRecordPos(pos)
       IN  IF p = 0
              THEN /\ LoadReturn(Nil, [kind |-> "header", cause |-> "EOF"])
                   /\ pos' = Len(input)
                   /\ UNCHANGED <<transactions, lineNumber>>
              ELSE IF Len(csvRecord(input[p])) # FieldsPerRecord
                      THEN /\ LoadReturn(Nil, [kind |-> "header", cause |-> "fields"])
                           /\ pos' = p
                           /\ UNCHANGED <<transactions, lineNumber>>
                      ELSE /\ pos' = p
                           /\ transactions' = <<>>
                           /\ lineNumber' = 2
                           /\ loadPc' = "loop"
                           /\ UNCHANGED <<loadResult, loadErr>>
    /\ UNCHANGED <<input, ctxDone, currentYear>>
    /\ LoadOnly

\* A plausible slip: the loop never looks at the context.
CancelNotChecked == FALSE

\* The select on ctx.Done() at the top of the loop.
CancelChecked == ctxDone

\* A plausible slip: the reader is left without a field count to enforce.
FieldCountUnchecked(record) == FALSE

\* csv.Reader.Read with FieldsPerRecord set: a record with another number of
\* fields is a read error.
FieldCountError(record) == Len(record) # FieldsPerRecord

\* What the loop does with the transaction of a parsed record.
Appended(tx) == Append(transactions, tx)

\* What LoadTransactions returns with a validation error.
ResultOnError == Nil

\* One turn of the loop of LoadTransactions: the cancellation check, the
\* read of the next record, its parse, the append.
LoadStep ==
    /\ loadPc = "loop"
    /\ IF CancelChecked
          THEN /\ LoadReturn(Nil, [kind |-> "cancelled", line |-> lineNumber])
               /\ UNCHANGED <<pos, transactions, lineNumber>>
          ELSE LET p == NextRecordPos(pos)
               IN  IF p = 0
                      THEN /\ LoadReturn(Slice(transactions), NoErr)
                           /\ pos' = Len(input)
                           /\ UNCHANGED <<transactions, lineNumber>>
                      ELSE /\ pos' = p
                           /\ LET record == csvRecord(input[p])
                                  parsed == parseRecord(record)
                              IN  IF FieldCountError(record)
                                     THEN /\ LoadReturn(ResultOnError,
                                                [kind |-> "csv", line |-> lineNumber])
                                          /\ UNCHANGED <<transactions, lineNumber>>
                                     ELSE IF ~parsed.ok
                                             THEN /\ LoadReturn(ResultOnError,
                                                        [kind |-> "validation",
                                                         line |-> lineNumber,
                                                         field |-> parsed.field])
                                                  /\ UNCHANGED <<transactions, lineNumber>>
                                             ELSE /\ transactions' = Appended(parsed.tx)
                                                  /\ lineNumber' = lineNumber + 1
                                                  /\ UNCHANGED <<loadPc, loadResult,
                                                                 loadErr>>
    /\ UNCHANGED <<input, ctxDone, currentYear>>
    /\ LoadOnly

NextLoad ==
    \/ NewCSVTransactionLoader
    \/ Tick
    \/ Cancel
    \/ loadPc = "idle" /\ \E in \in Inputs : LoadCall(in)
    \/ ReadHeader
    \/ LoadStep

\* ------------------------------------------------------------------------
\* The field parsers, applied to one field
\* ------------------------------------------------------------------------

\* Every string of at most n characters of the alphabet.
RECURSIVE StringsUpTo(_, _)
StringsUpTo(alphabet, n) ==
    IF n = 0 THEN {<<>>}
    ELSE LET shorter == StringsUpTo(alphabet, n - 1)
         IN  shorter \cup {Append(t, c) : t \in shorter, c \in alphabet}

\* The id fields the parser is given: short strings of digits, spaces and a
\* letter, and the first number that does not fit 32 bits.
IDFields ==
    StringsUpTo({"0", "7", " ", "a"}, MaxFieldLen)
        \cup {<<"4", "2", "9", "4", "9", "6", "7", "2", "9", "6">>}

\* The date fields: a month and a day, with or without a year, and some
\* fields of other shapes.
MonthStrings == {<<"1">>, <<"2">>, <<"0", "2">>, <<"1", "2">>, <<"1", "3">>, <<"0">>, <<>>}

DayStrings == {<<"5">>, <<"2", "9">>, <<"3", "0">>, <<"3", "1">>, <<"0">>, <<>>}

YearStrings == {<<"2", "0", "2", "2">>, <<"2", "0", "2", "3">>, <<"2", "0", "2", "4">>,
                <<"2", "4">>}

DateFields ==
    {m \o <<"/">> \o d : m \in MonthStrings, d \in DayStrings}
        \cup {m \o <<"/">> \o d \o <<"/">> \o y :
                 m \in MonthStrings, d \in DayStrings, y \in YearStrings}
        \cup {<<>>, <<"1", "5">>, <<"1", "/", "5", "/">>, <<" ", "1", "/", "5">>}

\* The amount fields: short strings of signs, digits, a point and a letter.
AmountFields == StringsUpTo({"+", "-", "5", "0", ".", "a"}, MaxFieldLen)

InitParse ==
    /\ fieldKind = "none"
    /\ field = <<>>
    /\ fieldResult = Fail

\* A field parser of the constructed loader is applied to a field; each
\* behaviour applies one parser to one field.
ParseID(idStr) ==
    /\ loadPc # "unbuilt" /\ fieldKind = "none"
    /\ fieldKind' = "ID"
    /\ field' = idStr
    /\ fieldResult' = parseIDOptimized(idStr)
    /\ ParseOnly

ParseDate(dateStr) ==
    /\ loadPc # "unbuilt" /\ fieldKind = "none"
    /\ fieldKind' = "date"
    /\ field' = dateStr
    /\ fieldResult' = parseDateOptimized(dateStr)
    /\ ParseOnly

ParseAmount(amountStr) ==
    /\ loadPc # "unbuilt" /\ fieldKind = "none"
    /\ fieldKind' = "amount"
    /\ field' = amountStr
    /\ fieldResult' = parseAmountOptimized(amountStr)
    /\ ParseOnly

NextParse ==
    \/ NewCSVTransactionLoader
    \/ Tick
    \/ fieldKind = "none" /\ \E idStr \in IDFields : ParseID(idStr)
    \/ fieldKind = "none" /\ \E dateStr \in DateFields : ParseDate(dateStr)
    \/ fieldKind = "none" /\ \E amountStr \in AmountFields : ParseAmount(amountStr)

\* ------------------------------------------------------------------------
\* DefaultSummarizer.CalculateSummary
\* ------------------------------------------------------------------------
\* Amounts are floating-point numbers.  The model's numbers are the integers
\* that fit Precision significant bits; a sum or quotient that does not fit
\* is rounded to the nearest such number, ties to the even one, as float64
\* arithmetic does with 53 bits.

Abs(x) == IF x < 0 THEN 0 - x ELSE x

\* The spacing of the numbers of the model around magnitude a.
RECURSIVE Ulp(_, _)
Ulp(a, u) == IF a < u * (2 ^ Precision) THEN u ELSE Ulp(a, 2 * u)

\* q + r/n rounded to the nearest integer, ties to even.
RoundHalfEven(q, r, n) == IF 2 * r > n \/ (2 * r = n /\ q % 2 = 1) THEN q + 1 ELSE q

\* The number of the model nearest to x.
FRound(x) ==
    LET u == Ulp(Abs(x), 1)
        m == u * RoundHalfEven(Abs(x) \div u, Abs(x) % u, u)
    IN  IF x < 0 THEN 0 - m ELSE m

\* a + b
FAdd(a, b) == FRound(a + b)

\* a / float64(n), n > 0
FDiv(a, n) ==
    LET m == RoundHalfEven(Abs(a) \div n, Abs(a) % n, n)
    IN  FRound(IF a < 0 THEN 0 - m ELSE m)

\* A nil map, and a map made with make() holding the entries f.
NilMap == [nil |-> TRUE, entries |-> <<>>]

MakeMap(f) == [nil |-> FALSE, entries |-> f]

\* for _, v := range values { total += v }
RECURSIVE SumLeft(_, _)
SumLeft(total, values) ==
    IF values = <<>> THEN total
    ELSE SumLeft(FAdd(total, Head(values)), Tail(values))

AmountsOf(txnList) == [k \in 1..Len(txnList) |-> txnList[k].Amount]

\* A plausible slip: the total is accumulated from the last transaction to
\* the first.
RECURSIVE SumRight(_)
SumRight(values) ==
    IF values = <<>> THEN 0 ELSE FAdd(SumRight(Tail(values)), Head(values))

TotalFromTheRight(txnList) == SumRight(AmountsOf(txnList))

\* calculateTotalBalance
calculateTotalBalance(txnList) == SumLeft(0, AmountsOf(txnList))

\* A plausible slip: every month of a year that has transactions gets a bucket.
GroupAllMonths(txnList) ==
    LET years == {txnList[k].Date.year : k \in 1..Len(txnList)}
    IN  [y \in years |->
            [m \in 1..12 |->
                SelectSeq(txnList, LAMBDA t : t.Date.year = y /\ t.Date.month = m)]]

\* groupTransactionsByYearAndMonth: year -> month -> the transactions of that
\* month, in the order of the list; a key exists once a transaction has it.
groupTransactionsByYearAndMonth(txnList) ==
    LET years == {txnList[k].Date.year : k \in 1..Len(txnList)}
        months(y) == {txnList[k].Date.month :
                        k \in {j \in 1..Len(txnList) : txnList[j].Date.year = y}}
    IN  [y \in years |->
            [m \in months(y) |->
                SelectSeq(txnList, LAMBDA t : t.Date.year = y /\ t.Date.month = m)]]

\* A plausible slip: the amounts that are not negative are the credits.
SeparateZerosAsCredits(txnList) ==
    [debits  |-> SelectSeq(AmountsOf(txnList), LAMBDA a : a < 0),
     credits |-> SelectSeq(AmountsOf(txnList), LAMBDA a : a >= 0)]

\* separateDebitsAndCredits
separateDebitsAndCredits(txnList) ==
    [debits  |-> SelectSeq(AmountsOf(txnList), LAMBDA a : a < 0),
     credits |-> SelectSeq(AmountsOf(txnList), LAMBDA a : a > 0)]

\* A plausible slip: the sum is returned without the division.
SumWithoutDivision(values) == SumLeft(0, values)

\* calculateAverage
calculateAverage(values) ==
    IF Len(values) = 0 THEN 0 ELSE FDiv(SumLeft(0, values), Len(values))

\* computeMonthlyDataFromYearlyGroups
computeMonthlyDataFromYearlyGroups(yearlyGroups) ==
    MakeMap([y \in DOMAIN yearlyGroups |->
        MakeMap([m \in DOMAIN yearlyGroups[y] |->
            [TransactionCount |-> Len(yearlyGroups[y][m]),
             AverageDebit     |->
                 calculateAverage(separateDebitsAndCredits(yearlyGroups[y][m]).debits),
             AverageCredit    |->
                 calculateAverage(separateDebitsAndCredits(yearlyGroups[y][m]).credits)]])])

\* calculateYearlyData
calculateYearlyData(txnList) ==
    computeMonthlyDataFromYearlyGroups(groupTransactionsByYearAndMonth(txnList))

\* What CalculateSummary returns for an empty list.
EmptySummaryNilMap == [TotalBalance |-> 0, YearlyData |-> NilMap]

EmptySummary == [TotalBalance |-> 0, YearlyData |-> MakeMap(<<>>)]

\* DefaultSummarizer.CalculateSummary
SummaryOf(txnList) ==
    IF Len(txnList) = 0 THEN EmptySummary
    ELSE [TotalBalance |-> calculateTotalBalance(txnList),
          YearlyData   |-> calculateYearlyData(txnList)]

\* The transactions CalculateSummary is given: dates in three months of two
\* years, amounts that are negative, zero, small and at the edge of the
\* precision.
SumDates == {[year |-> 2023, month |-> 7, day |-> 15],
             [year |-> 2023, month |-> 8, day |-> 2],
             [year |-> 2024, month |-> 7, day |-> 15]}

SumAmounts == {0 - 7, 0 - 2, 0, 1, 2 ^ Precision}

SumTxns == [ID : {1}, Date : SumDates, Amount : SumAmounts, AccountID : {"A1"}]

SumInputs == UNION {[1..n -> SumTxns] : n \in 0..MaxSumTxns}

InitSum ==
    /\ sumPc = "idle"
    /\ sumIn = <<>>
    /\ summary = [TotalBalance |-> 0, YearlyData |-> NilMap]

\* CalculateSummary is called with a list and returns.
SummarizerCall(txnList) ==
    /\ sumPc = "idle"
    /\ sumPc' = "done"
    /\ sumIn' = txnList
    /\ summary' = SummaryOf(txnList)
    /\ SumOnly

NextSum == sumPc = "idle" /\ \E txnList \in SumInputs : SummarizerCall(txnList)

\* ProcessFile hands the list LoadTransactions returned to CalculateSummary.
SummarizeLoaded ==
    /\ loadPc = "done" /\ loadErr = NoErr
    /\ sumPc = "idle"
    /\ sumPc' = "done"
    /\ sumIn' = loadResult.list
    /\ summary' = SummaryOf(loadResult.list)
    /\ SumOnly

NextLoadSum ==
    \/ NextLoad
    \/ SummarizeLoaded

\* ------------------------------------------------------------------------
\* Handler, processRecord and DefaultProcessor.ProcessFile
\* ------------------------------------------------------------------------
\* ProcessFile reaches its collaborators through interfaces (storage, loader,
\* repository, summarizer, mailer): each call is a step whose outcome is any
\* outcome the collaborator buildDependencies wires in can produce.

\* The records of an event: a bucket name and an object key, either may be empty.
RecordPool == [bucket : {"", "b"}, key : {"", "k"}]

Events == UNION {[1..n -> RecordPool] : n \in 0..MaxRecords}

AccountIDs == {"A1", "A2"}

AccountEmails == {"", "a@x"}

\* The values the AccountID tag of an object may carry, "" when it is absent.
TagValues == AccountIDs \cup {""}

\* Summary{}: the zero value.
ZeroSummary == [TotalBalance |-> 0, YearlyData |-> NilMap]

\* What the history holds for a record nothing has happened to yet.
NoHistory ==
    [valid |-> FALSE, get |-> "none", load |-> "none", save |-> "none",
     summary |-> 0, send |-> "none", account |-> "", email |-> "", loaded |-> Nil,
     saved |-> Nil,
     summarized |-> Nil, mailed |-> ZeroSummary, returned |-> ZeroSummary,
     result |-> "none"]

NoStats == [TotalRecords |-> 0, SuccessCount |-> 0, FailureCount |-> 0, Errors |-> <<>>]

NoFile == [AccountID |-> "", AccountEmail |-> ""]

InitPipe ==
    /\ pipePc = "idle"
    /\ event = <<>>
    /\ recIdx = 0
    /\ stats = NoStats
    /\ handlerErr = NoErr
    /\ invocations = 0
    /\ processorOnce = FALSE
    /\ processor = "nil"
    /\ initError = NoErr
    /\ summaryFile = NoFile
    /\ txns = <<>>
    /\ summaryData = ZeroSummary
    /\ cur = NoHistory
    /\ log = <<>>

\* validateS3Record: a record needs a bucket name and an object key.
validateS3Record(rec) == rec.bucket # "" /\ rec.key # ""

\* A plausible slip: the error is recorded and the failure is not counted.
AddErrorUncounted(recordIndex) ==
    [stats EXCEPT !.Errors = Append(@, recordIndex)]

\* ProcessingStats.AddError
AddError(recordIndex) ==
    [stats EXCEPT !.FailureCount = @ + 1, !.Errors = Append(@, recordIndex)]

\* Handler is invoked with an event: getProcessor builds the processor on
\* the first invocation of the process (built says whether buildProcessor
\* succeeds) and returns the stored pair afterwards; an initialisation error
\* ends the invocation, otherwise the statistics are set up and the loop over
\* the records starts.
HandlerCall(ev, built) ==
    /\ pipePc \in {"idle", "done"}
    /\ invocations < MaxInvocations
    /\ invocations' = invocations + 1
    /\ LET proc == IF processorOnce THEN processor
                   ELSE IF built THEN "processor" ELSE "nil"
           err  == IF processorOnce THEN initError
                   ELSE IF built THEN NoErr ELSE [kind |-> "init"]
       IN  /\ processorOnce' = TRUE
           /\ processor' = proc
           /\ initError' = err
           /\ IF err # NoErr
                 THEN /\ pipePc' = "done"
                      /\ handlerErr' = err
                      /\ UNCHANGED <<event, recIdx, stats>>
                 ELSE /\ pipePc' = "loop"
                      /\ handlerErr' = NoErr
                      /\ event' = ev
                      /\ recIdx' = 1
                      /\ stats' = [NoStats EXCEPT !.TotalRecords = Len(ev)]
    /\ summaryFile' = NoFile
    /\ txns' = <<>>
    /\ summaryData' = ZeroSummary
    /\ cur' = NoHistory
    /\ log' = <<>>
    /\ PipeOnly

\* A plausible slip: the loop over the records stops at the first failure.
AfterFailureBreak == Len(event) + 1

\* Handler's loop after processRecord returned an error: continue.
AfterFailure == recIdx + 1

\* processRecord returns an error for the current record: the error is added
\* to the statistics and Handler goes on with the next record.
RecordFailed(h) ==
    /\ stats' = AddError(recIdx - 1)
    /\ log' = Append(log, [h EXCEPT !.result = "failed"])
    /\ cur' = NoHistory
    /\ recIdx' = AfterFailure
    /\ pipePc' = "loop"

\* processRecord returns nil for the current record.
RecordSucceeded(h) ==
    /\ stats' = [stats EXCEPT !.SuccessCount = @ + 1]
    /\ log' = Append(log, [h EXCEPT !.result = "ok"])
    /\ cur' = NoHistory
    /\ recIdx' = recIdx + 1
    /\ pipePc' = "loop"

\* Handler's loop test, and processRecord up to its call of ProcessFile.
HandlerLoop ==
    /\ pipePc = "loop"
    /\ IF recIdx > Len(event)
          THEN /\ pipePc' = "done"
               /\ UNCHANGED <<recIdx, stats, cur, log>>
          ELSE IF ~validateS3Record(event[recIdx])
                  THEN RecordFailed(NoHistory)
                  ELSE /\ pipePc' = "get"
                       /\ cur' = [NoHistory EXCEPT !.valid = TRUE]
                       /\ UNCHANGED <<recIdx, stats, log>>
    /\ summaryFile' = NoFile
    /\ txns' = <<>>
    /\ summaryData' = ZeroSummary
    /\ UNCHANGED <<event, handlerErr, invocations, processorOnce, processor, initError>>
    /\ PipeOnly

\* ProcessFile: storage.Get
\* getFileMetadata's last check: both tags are required, an object that lacks
\* either one (or carries it empty) is rejected.
MissingTags(accountID, accountEmail) == accountID = "" \/ accountEmail = ""

\* S3SummaryFilesStorage.Get: ok says whether GetObject and GetObjectTagging
\* succeeded, id and email are the values of the object's two tags ("" when
\* the tag is absent).
StorageGet(ok, id, email) ==
    /\ pipePc = "get"
    /\ IF ok /\ ~MissingTags(id, email)
          THEN /\ summaryFile' = [AccountID |-> id, AccountEmail |-> email]
               /\ cur' = [cur EXCEPT !.get = "ok", !.account = id, !.email = email]
               /\ pipePc' = "load"
               /\ UNCHANGED <<recIdx, stats, log>>
          ELSE /\ RecordFailed([cur EXCEPT !.get = IF ok THEN "missing" ELSE "err",
                                           !.account = IF ok THEN id ELSE "",
                                           !.email = IF ok THEN email ELSE ""])
               /\ UNCHANGED summaryFile
    /\ UNCHANGED <<event, handlerErr, invocations, processorOnce, processor, initError,
                   txns, summaryData>>
    /\ PipeOnly

\* What ProcessFile does after LoadTransactions returned: on an error it
\* returns, otherwise it goes on to persist.
AfterLoadIgnoringError(outcome) == "save"

AfterLoad(outcome) == IF outcome = "ok" THEN "save" ELSE "return"

\* The transactions a loader returns: ids 1..n, no account id yet.
\* What the loader returns for a well-formed file of n data lines: parseRecord
\* starts each transaction from the zero value and sets its ID, Date and
\* Amount (here id k, the 15th of month k, amount -k).
Loaded(n) ==
    [k \in 1..n |-> [ZeroTransaction EXCEPT !.ID = k,
                                            !.Date = [year |-> 2024, month |-> k, day |-> 15],
                                            !.Amount = 0 - k]]

WithoutAccountID(list, accountID) == list

\* ProcessFile's loop over txns: the account id is written on every one.
WithAccountID(list, accountID) ==
    [k \in 1..Len(list) |-> [list[k] EXCEPT !.AccountID = accountID]]

\* ProcessFile: loader.LoadTransactions, then the account id is written on
\* every transaction.
LoadTransactions(outcome, n) ==
    /\ pipePc = "load"
    /\ IF AfterLoad(outcome) = "save"
          THEN /\ txns' = WithAccountID(Loaded(n), summaryFile.AccountID)
               /\ cur' = [cur EXCEPT !.load = outcome, !.loaded = Slice(Loaded(n))]
               /\ pipePc' = "save"
               /\ UNCHANGED <<recIdx, stats, log>>
          ELSE /\ RecordFailed([cur EXCEPT !.load = outcome])
               /\ UNCHANGED txns
    /\ UNCHANGED <<event, handlerErr, invocations, processorOnce, processor, initError,
                   summaryFile, summaryData>>
    /\ PipeOnly

\* What ProcessFile does after repository.Save returned.
AfterSaveIgnoringError(outcome) == "summary"

AfterSave(outcome) == IF outcome = "ok" THEN "summary" ELSE "return"

\* ProcessFile: repository.Save
RepositorySave(outcome) ==
    /\ pipePc = "save"
    /\ IF AfterSave(outcome) = "summary"
          THEN /\ cur' = [cur EXCEPT !.save = outcome, !.saved = Slice(txns)]
               /\ pipePc' = "summary"
               /\ UNCHANGED <<recIdx, stats, log>>
          ELSE RecordFailed([cur EXCEPT !.save = outcome, !.saved = Slice(txns)])
    /\ UNCHANGED <<event, handlerErr, invocations, processorOnce, processor, initError,
                   summaryFile, txns, summaryData>>
    /\ PipeOnly

\* ProcessFile: summarizer.CalculateSummary; the summary is what the
\* summarizer makes of the list it is given.
CalculateSummary ==
    /\ pipePc = "summary"
    /\ summaryData' = SummaryOf(txns)
    /\ cur' = [cur EXCEPT !.summary = @ + 1, !.summarized = Slice(txns)]
    /\ pipePc' = "send"
    /\ UNCHANGED <<event, recIdx, stats, handlerErr, invocations, processorOnce,
                   processor, initError, summaryFile, txns, log>>
    /\ PipeOnly

\* ProcessFile: the mail is sent if the file has an address, and the result
\* is returned.
MailerSend(ok) ==
    /\ pipePc = "send"
    /\ IF summaryFile.AccountEmail # ""
          THEN IF ok
                  THEN RecordSucceeded([cur EXCEPT !.send = "ok", !.mailed = summaryData,
                                                   !.returned = summaryData])
                  ELSE RecordFailed([cur EXCEPT !.send = "err", !.mailed = summaryData])
          ELSE ok /\ RecordSucceeded([cur EXCEPT !.returned = summaryData])
    /\ UNCHANGED <<event, handlerErr, invocations, processorOnce, processor, initError,
                   summaryFile, txns, summaryData>>
    /\ PipeOnly

NextPipe ==
    \/ pipePc \in {"idle", "done"} /\ \E ev \in Events, built \in BOOLEAN : HandlerCall(ev, built)
    \/ HandlerLoop
    \/ pipePc = "get" /\ \E ok \in BOOLEAN, id \in TagValues, email \in AccountEmails :
                            StorageGet(ok, id, email)
    \/ pipePc = "load" /\ \E outcome \in {"ok", "validation", "cancelled"}, n \in 0..MaxTxns :
                            LoadTransactions(outcome, n)
    \/ pipePc = "save" /\ \E outcome \in {"ok", "err"} : RepositorySave(outcome)
    \/ CalculateSummary
    \/ pipePc = "send" /\ \E ok \in BOOLEAN : MailerSend(ok)

\* ------------------------------------------------------------------------
\* getProcessor called from several goroutines
\* ------------------------------------------------------------------------
\* processorOnce.Do(f) is sync.Once.Do: a caller that finds the done flag
\* set returns at once; otherwise it takes the Once's mutex, looks at the flag
\* again, and if it is still unset runs f, sets the flag and releases the
\* mutex.  f assigns the two results of buildProcessor to the package
\* variables processor and initError, one after the other; getProcessor then
\* reads both.

Goroutines == 1..MaxGoroutines

NoPair == [processor |-> "none", initError |-> NoErr]

InitError == [kind |-> "init"]

InitOnce ==
    /\ gPc = [g \in Goroutines |-> "idle"]
    /\ onceM = 0
    /\ buildOk = FALSE
    /\ builds = 0
    /\ firstBuilt = FALSE
    /\ got = [g \in Goroutines |-> NoPair]

Goto(g, pc) == gPc' = [gPc EXCEPT ![g] = pc]

\* getProcessor is called: Once.Do's fast path reads the done flag.
GetProcessorCall(g) ==
    /\ gPc[g] = "idle"
    /\ Goto(g, IF processorOnce THEN "read" ELSE "lock")
    /\ UNCHANGED <<onceM, buildOk, builds, firstBuilt, got, processorOnce, processor,
                   initError>>
    /\ OnceOnly

\* A plausible slip: the initialisation is not guarded by a lock.
MutexIgnored == TRUE

\* o.m.Lock() succeeds when the mutex is free.
MutexFree == onceM = 0

\* doSlow takes the mutex, looks at the flag again and, if it is still unset,
\* calls buildProcessor, which succeeds or fails.
OnceLock(g, ok) ==
    /\ gPc[g] = "lock"
    /\ MutexFree
    /\ onceM' = g
    /\ IF processorOnce
          THEN /\ Goto(g, "unlock")
               /\ UNCHANGED <<buildOk, builds, firstBuilt>>
          ELSE /\ Goto(g, "processor")
               /\ buildOk' = ok
               /\ builds' = builds + 1
               /\ firstBuilt' = IF builds = 0 THEN ok ELSE firstBuilt
    /\ UNCHANGED <<got, processorOnce, processor, initError>>
    /\ OnceOnly

\* processor, initError = buildProcessor(): the first assignment
AssignProcessor(g) ==
    /\ gPc[g] = "processor"
    /\ processor' = IF buildOk THEN "processor" ELSE "nil"
    /\ Goto(g, "initError")
    /\ UNCHANGED <<onceM, buildOk, builds, firstBuilt, got, processorOnce, initError>>
    /\ OnceOnly

\* processor, initError = buildProcessor(): the second assignment
AssignInitError(g) ==
    /\ gPc[g] = "initError"
    /\ initError' = IF buildOk THEN NoErr ELSE InitError
    /\ Goto(g, "store")
    /\ UNCHANGED <<onceM, buildOk, builds, firstBuilt, got, processorOnce, processor>>
    /\ OnceOnly

\* The deferred o.done.Store(1)
OnceStore(g) ==
    /\ gPc[g] = "store"
    /\ processorOnce' = TRUE
    /\ Goto(g, "unlock")
    /\ UNCHANGED <<onceM, buildOk, builds, firstBuilt, got, processor, initError>>
    /\ OnceOnly

\* The deferred o.m.Unlock()
OnceUnlock(g) ==
    /\ gPc[g] = "unlock"
    /\ onceM' = 0
    /\ Goto(g, "read")
    /\ UNCHANGED <<buildOk, builds, firstBuilt, got, processorOnce, processor, initError>>
    /\ OnceOnly

\* return processor, initError: the first read
ReadProcessor(g) ==
    /\ gPc[g] = "read"
    /\ got' = [got EXCEPT ![g].processor = processor]
    /\ Goto(g, "readError")
    /\ UNCHANGED <<onceM, buildOk, builds, firstBuilt, processorOnce, processor, initError>>
    /\ OnceOnly

\* return processor, initError: the second read, and the return
ReadInitError(g) ==
    /\ gPc[g] = "readError"
    /\ got' = [got EXCEPT ![g].initError = initError]
    /\ Goto(g, "returned")
    /\ UNCHANGED <<onceM, buildOk, builds, firstBuilt, processorOnce, processor, initError>>
    /\ OnceOnly

NextOnce ==
    \/ \E g \in Goroutines : GetProcessorCall(g)
    \/ \E g \in Goroutines, ok \in BOOLEAN : OnceLock(g, ok)
    \/ \E g \in Goroutines : AssignProcessor(g)
    \/ \E g \in Goroutines : AssignInitError(g)
    \/ \E g \in Goroutines : OnceStore(g)
    \/ \E g \in Goroutines : OnceUnlock(g)
    \/ \E g \in Goroutines : ReadProcessor(g)
    \/ \E g \in Goroutines : ReadInitError(g)

Init ==
    InitSave /\ InitLoad /\ InitClock /\ InitPipe /\ InitParse /\ InitSum /\ InitOnce

SpecOnce == Init /\ [][NextOnce]_vars

SpecSum == Init /\ [][NextSum]_vars

SpecLoadSum == Init /\ [][NextLoadSum]_vars

SpecParse == Init /\ [][NextParse]_vars

SpecPipe == Init /\ [][NextPipe]_vars

SpecLoad == Init /\ [][NextLoad]_vars

SpecSave == Init /\ [][NextSave]_vars

\* Save under the scheduling the code has: a caller that calls it, one
\* goroutine that runs it to the end, and a store client whose every
\* BatchWriteItem call returns (with a result or with an error).
SpecSaveFair == SpecSave /\ WF_vars(NextSave)

\* ------------------------------------------------------------------------
\* Properties of Save (checked under SpecSave)
\* ------------------------------------------------------------------------

SaveSucceeded == savePc = "done" /\ saveErr = NoErr

SaveExhausted == savePc = "done" /\ saveErr.kind = "unprocessed"

\* Every response recorded for the current batch left something unprocessed.
AllResponsesNonEmpty ==
    \A k \in 1..Len(batchResponses) : batchResponses[k] > 0

\* The input transactions the store has not written.
Unwritten == {t \in 1..saveLen : ackCount[t] = 0}

\* C1: whenever Save returns success, every input transaction was acknowledged
\* exactly once, was only ever submitted under one key, and the store holds
\* exactly one item for it (and nothing else).
C1_SuccessWritesEachOnce ==
    SaveSucceeded =>
        /\ \A t \in 1..saveLen :
              /\ ackCount[t] = 1
              /\ Cardinality({it \in submitted : it.tx = t}) = 1
              /\ Cardinality({it \in store : it.tx = t}) = 1
        /\ Cardinality(store) = saveLen
        /\ store = submitted

\* C1 witness: a successful Save of more than one batch whose last batch
\* needed a retry.
C1_Witness ==
    SaveSucceeded /\ saveLen > batchSize /\ batchCalls > 1

\* C2: when every response for a batch leaves items unprocessed, Save fails
\* after exactly 4 submissions of the batch (3 retries) and not before, and
\* the count in the error is the size of the unprocessed set of the 4th
\* response.
C2_ExhaustsAfterThreeRetries ==
    /\ SaveExhausted =>
          /\ batchCalls = 4
          /\ retryCount = 3
          /\ Len(batchResponses) = 4
          /\ AllResponsesNonEmpty
          /\ saveErr.retries = 3
          /\ saveErr.count = batchResponses[4]
          /\ saveErr.count = Cardinality(result.UnprocessedItems)
    /\ (AllResponsesNonEmpty /\ Len(batchResponses) = 4 /\ savePc \notin {"ret", "retry"})
          => SaveExhausted
    /\ (AllResponsesNonEmpty /\ Len(batchResponses) \in 1..3 /\ ~result.err)
          => savePc \in {"ret", "retry", "call"}
    /\ batchCalls <= 4

\* C2 witness: Save failed on exhausted retries with a last unprocessed set
\* smaller than the first one.
C2_Witness ==
    SaveExhausted /\ batchResponses[4] < batchResponses[1]

\* C3: a batch whose first response leaves k > 0 items unprocessed and whose
\* retry leaves none is written with exactly two store calls and without error.
C3_OneRetrySucceeds ==
    (Len(batchResponses) >= 2 /\ batchResponses[1] > 0 /\ batchResponses[2] = 0)
        => /\ Len(batchResponses) = 2
           /\ batchCalls = 2
           /\ saveErr = NoErr
           /\ savePc \in {"ret", "retry", "loop", "done"}
           /\ savePc \in {"loop", "done"} => \A it \in writeRequests : ackCount[it.tx] = 1

\* C3 witness: Save returned success after its last batch had several items
\* unprocessed on the first response and none on the retry.
C3_Witness ==
    /\ SaveSucceeded
    /\ Len(batchResponses) = 2
    /\ batchResponses[1] > 1
    /\ batchResponses[2] = 0

\* C4: a retry request holds exactly the items the previous response returned
\* as unprocessed: none of them acknowledged before, none left out.
C4_RetryIsExactlyUnprocessed ==
    (savePc = "call" /\ callKind = "retry") =>
        /\ request = result.UnprocessedItems
        /\ \A it \in request : ackCount[it.tx] = 0
        /\ \A it \in writeRequests : ackCount[it.tx] = 0 => it \in request

\* C4 witness: a second retry in flight that is a proper part of the batch.
C4_Witness ==
    /\ savePc = "call"
    /\ callKind = "retry"
    /\ retryCount = 2
    /\ request # writeRequests
    /\ request # {}

\* C5 as stated: the count of the exhausted-retries error is the number of
\* transactions of the whole call that are not written.
C5_CountIsWholeCall ==
    SaveExhausted => saveErr.count = Cardinality(Unwritten)

\* C5 amended: the count is the number of unwritten transactions of the
\* failing batch (the last unprocessed set); the transactions of later
\* batches are unwritten too and are not counted, the earlier ones are written.
C5_CountIsFailingBatch ==
    SaveExhausted =>
        /\ saveErr.count = Cardinality({t \in (i + 1)..BatchEnd : ackCount[t] = 0})
        /\ Cardinality(Unwritten) = saveErr.count + (saveLen - BatchEnd)
        /\ \A t \in 1..i : ackCount[t] = 1
        /\ \A t \in (BatchEnd + 1)..saveLen : ackCount[t] = 0

\* C5 witness: retries exhausted on a batch that has batches after it, with
\* part of the failing batch written.
C5_Witness ==
    /\ SaveExhausted
    /\ BatchEnd < saveLen
    /\ saveErr.count < BatchEnd - i

\* The slice of the k-th batch, 1-based: transactions[(k-1)*25 : min(k*25, N)].
SliceOf(k) == <<(k - 1) * batchSize + 1, Min(k * batchSize, saveLen)>>

\* The initial requests made so far are the first consecutive slices of the input.
BatchesAreSlices ==
    \A k \in 1..Len(initialBatches) :
        /\ initialBatches[k] = SliceOf(k)
        /\ initialBatches[k][2] - initialBatches[k][1] + 1 \in 1..batchSize
        /\ k < Len(initialBatches) =>
              initialBatches[k][2] - initialBatches[k][1] + 1 = batchSize

\* C6 as stated: a Save call in which no batch exhausts its retries issues
\* ceil(N/25) initial requests.
C6_CeilBatchesUnlessExhausted ==
    (savePc = "done" /\ saveErr.kind # "unprocessed") =>
        Len(initialBatches) = CeilDiv(saveLen, batchSize)

\* C6 amended: a Save call that returns success (no batch exhausts its retries
\* and no store request fails) issued exactly ceil(N/25) initial requests;
\* the batches are the consecutive slices of the input, each of 1..25 items,
\* only the last one shorter than 25; an empty input issues no request.
C6_CeilBatchesOnSuccess ==
    /\ BatchesAreSlices
    /\ SaveSucceeded =>
          /\ Len(initialBatches) = CeilDiv(saveLen, batchSize)
          /\ saveLen = 0 => submitted = {}

\* C6 witness: a successful Save of three batches, the last one shorter.
C6_Witness ==
    /\ SaveSucceeded
    /\ Len(initialBatches) = 3
    /\ initialBatches[3][2] - initialBatches[3][1] + 1 < batchSize


\* The number of initial requests made so far, and the 0-based number of the
\* batch the last of them was for.
InitialCount == Len(initialBatches)

LastBatch == InitialCount - 1

SaveFailed == savePc = "done" /\ saveErr # NoErr

\* C25: whenever a batch has been started, every transaction of the batches
\* before it is written exactly once (those batches ended with nothing
\* unprocessed) and nothing of a later batch was ever submitted; when Save
\* has failed, the failing batch is the last one a request was made for, the
\* earlier batches are in the store, and the error names index 25 * batch.
C25_State ==
    /\ InitialCount > 0 =>
          /\ i = batchSize * LastBatch \/ (savePc \in {"loop", "done"} /\ i = batchSize * InitialCount)
          /\ \A t \in 1..(batchSize * LastBatch) : ackCount[t] = 1
          /\ 1..(batchSize * LastBatch) \subseteq {it.tx : it \in store}
          /\ \A it \in submitted : it.tx <= Min(batchSize * InitialCount, saveLen)
    /\ SaveFailed =>
          /\ saveErr.index = batchSize * LastBatch
          /\ saveErr.index = initialBatches[InitialCount][1] - 1
          /\ i = saveErr.index
          /\ \A t \in (BatchEnd + 1)..saveLen : ackCount[t] = 0

\* A step issues the initial request of a new batch only from the loop, with
\* no request in flight and nothing unprocessed; a failed request or an
\* exhausted budget is followed by Save's return and nothing else; the store
\* never loses an item; and a Save that has returned makes no request.
C25_Step ==
    /\ InitialCount' > InitialCount =>
          /\ savePc = "loop"
          /\ unprocessedItems = {}
          /\ result.UnprocessedItems = {}
          /\ ~result.err
          /\ callKind' = "initial"
    /\ (savePc = "ret" /\ result.err) => (savePc' = "done" /\ saveErr' # NoErr)
    /\ (savePc = "retry" /\ unprocessedItems # {} /\ retryCount = maxRetries)
          => (savePc' = "done" /\ saveErr' # NoErr)
    /\ store \subseteq store'
    /\ savePc = "done" => UNCHANGED <<store, submitted, initialBatches, batchCalls>>

C25_BatchesStrictlyInSequence == [][C25_Step]_vars /\ []C25_State

\* C25 witness: Save failed on its third batch with the first two batches
\* written.
C25_Witness ==
    /\ SaveFailed
    /\ saveErr.index = 2 * batchSize
    /\ Cardinality(store) >= 2 * batchSize
    /\ \E it \in submitted : it.tx <= 2 * batchSize /\ it \notin writeRequests

\* The requests of the batch in progress: one initial request and retryCount
\* retries, at most maxRetries of them.
BatchRequestsBounded ==
    /\ retryCount <= maxRetries
    /\ savePc \in {"call", "ret", "retry"} => batchCalls = 1 + retryCount
    /\ batchCalls <= 1 + maxRetries
    /\ Len(batchResponses) <= batchCalls

\* Only the last response of a batch can be empty: no request of the batch
\* follows a response that left nothing unprocessed.
NoRetryAfterEmptyResponse ==
    /\ \A k \in 1..(Len(batchResponses) - 1) : batchResponses[k] > 0
    /\ (savePc = "call" /\ callKind = "retry") => AllResponsesNonEmpty

\* C27: Save returns, whatever the store answers; it starts at most
\* ceil(N/25) batches and makes at most 1 initial and 3 retry requests for
\* each (so at most 4 * ceil(N/25) requests in all), and it makes no retry
\* request for a batch after a response of that batch left nothing
\* unprocessed.
C27_SaveTerminatesWithinBudget ==
    /\ <>(savePc = "done")
    /\ [](/\ InitialCount <= CeilDiv(saveLen, batchSize)
          /\ BatchRequestsBounded
          /\ NoRetryAfterEmptyResponse)

\* C27 witness: Save returned from a call of three batches whose last batch
\* used the whole budget, the last retry leaving nothing unprocessed.
C27_Witness ==
    /\ savePc = "done"
    /\ InitialCount = CeilDiv(saveLen, batchSize)
    /\ InitialCount = 3
    /\ batchCalls = 1 + maxRetries
    /\ batchResponses[3] > 0
    /\ batchResponses[4] = 0

\* Save returned the error of a store request.
SaveRequestFailed == savePc = "done" /\ saveErr.kind \in {"execute", "retry"}

\* The response of a failed request is followed by Save's return, with no
\* further request and the retry count as it was.
C28_Step ==
    (savePc = "ret" /\ result.err) =>
        /\ savePc' = "done"
        /\ saveErr'.kind = (IF callKind = "initial" THEN "execute" ELSE "retry")
        /\ UNCHANGED <<submitted, batchCalls, retryCount, unprocessedItems, store,
                       initialBatches, request>>

\* When Save has returned the error of a request: that request was the last
\* one made, it failed on the initial submission with no retry made or on
\* retry number retryCount <= 3 with the items of the previous response still
\* unprocessed and unwritten, and nothing of a later batch was submitted.
C28_State ==
    SaveRequestFailed =>
        /\ result.err
        /\ batchCalls = Len(batchResponses) + 1
        /\ AllResponsesNonEmpty
        /\ saveErr.index = batchSize * LastBatch
        /\ saveErr.kind = "execute" =>
              /\ batchCalls = 1
              /\ retryCount = 0
              /\ \A it \in writeRequests : ackCount[it.tx] = 0
        /\ saveErr.kind = "retry" =>
              /\ saveErr.attempt = retryCount
              /\ retryCount \in 1..maxRetries
              /\ batchCalls = 1 + retryCount
              /\ unprocessedItems # {}
              /\ request = unprocessedItems
              /\ \A it \in unprocessedItems : ackCount[it.tx] = 0
        /\ \A it \in submitted : it.tx <= BatchEnd
        /\ \A t \in (BatchEnd + 1)..saveLen : ackCount[t] = 0

\* C28: an error of the store request, on the initial submission or on a
\* retry, makes Save return at once: no retry follows, the unprocessed items
\* are not resubmitted and no later batch is started.
C28_StoreErrorFailsAtOnce == [][C28_Step]_vars /\ []C28_State

\* C28 witness: Save failed on the first retry of its first batch, with two
\* retries of the budget unused, items still unprocessed and a batch to come.
C28_Witness ==
    /\ SaveRequestFailed
    /\ saveErr.kind = "retry"
    /\ retryCount = 1
    /\ unprocessedItems # {}
    /\ i = 0
    /\ BatchEnd < saveLen

\* The same on the initial submission of the second batch.
InitialRequestFailedWitness ==
    /\ SaveRequestFailed
    /\ saveErr.kind = "execute"
    /\ i = batchSize
    /\ BatchEnd < saveLen

\* ------------------------------------------------------------------------
\* Properties of ProcessFile and Handler
\* ------------------------------------------------------------------------

\* The histories of the records of the running event: the finished ones and
\* the one in progress.
Histories == {log[k] : k \in 1..Len(log)} \cup {cur}

LoadFailed(h) == h.load \in {"validation", "cancelled"}

\* The outcome the record's own calls determine: it succeeds exactly when it
\* is valid and every call made for it succeeded.
OwnOutcome(h) ==
    IF /\ h.valid
       /\ h.get = "ok"
       /\ h.load = "ok"
       /\ h.save = "ok"
       /\ h.summary = 1
       /\ IF h.email = "" THEN h.send = "none" ELSE h.send = "ok"
    THEN "ok" ELSE "failed"

\* C7: a record whose LoadTransactions returned a validation or cancellation
\* error is never in progress past the load, its ProcessFile returned an error
\* (the record is counted as failed), and Save, CalculateSummary and Send
\* were not called for it, so the store was handed none of its transactions.
C7_LoadErrorAbortsBeforeSave ==
    /\ ~LoadFailed(cur)
    /\ \A k \in 1..Len(log) :
          LoadFailed(log[k]) =>
             /\ log[k].result = "failed"
             /\ log[k].save = "none"
             /\ log[k].saved = Nil
             /\ log[k].summary = 0
             /\ log[k].send = "none"
    /\ stats.FailureCount = Cardinality({k \in 1..Len(log) : log[k].result = "failed"})

\* C7 witness: a finished record whose load failed with a validation error and
\* another whose load was cancelled.
C7_Witness ==
    /\ Len(log) = 2
    /\ log[1].load = "validation"
    /\ log[2].load = "cancelled"
    /\ stats.FailureCount = 2

\* C8: a record whose Save returned an error is failed with no summary computed
\* and no mail sent; every record of the event is processed, in order, whatever
\* happened to the records before it, and its result is the one its own calls
\* determine.
C8_SaveErrorFailsOnlyItsFile ==
    /\ \A h \in Histories :
          h.save = "err" => /\ h.summary = 0
                            /\ h.send = "none"
                            /\ h.mailed = ZeroSummary
                            /\ h # cur
                            /\ h.result = "failed"
    /\ \A k \in 1..Len(log) : log[k].result = OwnOutcome(log[k])
    /\ pipePc \in {"loop", "get", "load", "save", "summary", "send"} => Len(log) = recIdx - 1
    /\ (pipePc = "done" /\ handlerErr = NoErr) =>
          /\ Len(log) = Len(event)
          /\ stats.TotalRecords = Len(event)
          /\ stats.SuccessCount + stats.FailureCount = Len(event)
          /\ stats.SuccessCount = Cardinality({k \in 1..Len(log) : log[k].result = "ok"})
          /\ stats.Errors = SelectSeq([k \in 1..Len(log) |-> k - 1],
                                      LAMBDA j : log[j + 1].result = "failed")

\* C8 witness: the Handler finished an event whose first record failed in Save
\* and whose second record was saved, summarised and mailed.
C8_Witness ==
    /\ pipePc = "done"
    /\ Len(log) = 2
    /\ log[1].save = "err"
    /\ log[1].result = "failed"
    /\ log[2].save = "ok"
    /\ log[2].send = "ok"
    /\ log[2].result = "ok"
    /\ stats.SuccessCount = 1
    /\ stats.FailureCount = 1

\* ------------------------------------------------------------------------
\* Properties of LoadTransactions (checked under SpecLoad)
\* ------------------------------------------------------------------------
\* What the input format calls a valid data line, stated on the text of the
\* line and independently of the loader: three comma-separated fields, an id
\* of digits that is positive, a date M/D or M/D/YYYY that exists, an amount
\* with an optional sign.

FormatFields(line) == SplitOn(line, ",")

FormatValidID(f) ==
    /\ TrimSpace(f) # <<>>
    /\ IsDigits(TrimSpace(f))
    /\ \E k \in 1..Len(TrimSpace(f)) : TrimSpace(f)[k] # "0"

\* The date a date field denotes: the year is the field's own if it has one,
\* the loader's year if not.
FormatDate(f) ==
    LET parts == SplitOn(TrimSpace(f), "/")
    IN  [year  |-> IF Len(parts) = 3 THEN DigitsVal(parts[3]) ELSE currentYear,
         month |-> DigitsVal(parts[1]),
         day   |-> DigitsVal(parts[2])]

FormatValidDate(f) ==
    LET parts == SplitOn(TrimSpace(f), "/")
    IN  /\ Len(parts) \in {2, 3}
        /\ \A k \in 1..Len(parts) : parts[k] # <<>> /\ IsDigits(parts[k])
        /\ Len(parts[1]) <= 2 /\ Len(parts[2]) <= 2
        /\ Len(parts) = 3 => Len(parts[3]) = 4
        /\ FormatDate(f).month \in 1..12
        /\ FormatDate(f).day \in 1..DaysIn(FormatDate(f).month, FormatDate(f).year)

\* The unsigned part of an amount field and its value in hundredths.
FormatUnsigned(f) ==
    LET t == TrimSpace(f) IN IF t # <<>> /\ t[1] \in {"+", "-"} THEN Tail(t) ELSE t

FormatValidAmount(f) ==
    LET parts == SplitOn(FormatUnsigned(f), ".")
    IN  /\ Len(parts) \in {1, 2}
        /\ \A k \in 1..Len(parts) : IsDigits(parts[k])
        /\ parts[1] # <<>>
        /\ Len(parts) = 2 => Len(parts[2]) \in 1..2

FormatAmount(f) ==
    LET parts == SplitOn(FormatUnsigned(f), ".")
        frac  == IF Len(parts) = 1 THEN 0
                 ELSE IF Len(parts[2]) = 1 THEN 10 * DigitsVal(parts[2])
                 ELSE DigitsVal(parts[2])
        mag   == 100 * DigitsVal(parts[1]) + frac
    IN  IF TrimSpace(f)[1] = "-" THEN 0 - mag ELSE mag

FormatValidLine(line) ==
    /\ Len(FormatFields(line)) = 3
    /\ FormatValidID(FormatFields(line)[1])
    /\ FormatValidDate(FormatFields(line)[2])
    /\ FormatValidAmount(FormatFields(line)[3])

\* The transaction a valid data line denotes.
FormatTransaction(line) ==
    [ID        |-> DigitsVal(TrimSpace(FormatFields(line)[1])),
     Date      |-> FormatDate(FormatFields(line)[2]),
     Amount    |-> FormatAmount(FormatFields(line)[3]),
     AccountID |-> ""]

\* The positions of the non-blank lines of the input, in stream order: the
\* first one is the header line, the others are the data lines.
RECURSIVE NonBlankFrom(_)
NonBlankFrom(k) ==
    IF k > Len(input) THEN <<>>
    ELSE IF input[k] = <<>> THEN NonBlankFrom(k + 1)
    ELSE <<k>> \o NonBlankFrom(k + 1)

Records == NonBlankFrom(1)

DataPositions == {Records[k] : k \in 2..Len(Records)}

\* A line the format rejects: a header that has not three fields, or a data
\* line that is not valid.
FormatInvalidAt(k) ==
    IF Records # <<>> /\ k = Records[1]
       THEN Len(FormatFields(input[k])) # 3
       ELSE k \in DataPositions /\ ~FormatValidLine(input[k])

LoadRan == loadPc = "done" /\ ~ctxDone

\* C9: an input with an invalid data line makes LoadTransactions fail on the
\* first invalid line of the stream, with a nil list; an error never comes
\* with a list.
C9_FailsOnFirstInvalidLine ==
    /\ (LoadRan /\ \E k \in DataPositions : FormatInvalidAt(k)) =>
          /\ loadErr # NoErr
          /\ loadResult = Nil
          /\ FormatInvalidAt(pos)
          /\ \A k \in 1..(pos - 1) : ~FormatInvalidAt(k)
    /\ (loadPc = "done" /\ loadErr # NoErr) => loadResult = Nil

\* C10: a well-formed input (a three-field header line, then N valid data
\* lines) yields exactly the N transactions of its data lines, in order; the
\* header line yields none, whatever its fields hold.
C10_WellFormedYieldsAllRows ==
    (/\ LoadRan
     /\ Records # <<>>
     /\ Len(FormatFields(input[Records[1]])) = 3
     /\ \A k \in DataPositions : FormatValidLine(input[k]))
        => /\ loadErr = NoErr
           /\ loadResult =
                Slice([k \in 1..(Len(Records) - 1) |->
                          FormatTransaction(input[Records[k + 1]])])

\* The part of C9 and C10 that does not rest on dates with a year nor on an
\* id of zero: on inputs whose dates all omit the year and whose ids are not
\* zero, the load fails on the first invalid line, and a well-formed input
\* yields the transactions of its data lines.
YearOmitted ==
    \A k \in DataPositions :
        Len(FormatFields(input[k])) = 3 =>
            Len(SplitOn(TrimSpace(FormatFields(input[k])[2]), "/")) # 3

NoZeroID ==
    \A k \in DataPositions :
        LET f == TrimSpace(FormatFields(input[k])[1])
        IN  ~(f # <<>> /\ IsDigits(f) /\ DigitsVal(f) = 0)

LoadCorrectWhenYearOmitted ==
    (YearOmitted /\ NoZeroID) =>
        C9_FailsOnFirstInvalidLine /\ C10_WellFormedYieldsAllRows

\* A load of two valid year-omitted data lines that returned both transactions.
LoadCorrectWitness ==
    /\ LoadRan /\ YearOmitted /\ loadErr = NoErr
    /\ Len(loadResult.list) = 2

\* ------------------------------------------------------------------------
\* Properties of the field parsers (checked under SpecParse)
\* ------------------------------------------------------------------------

\* The parts of a date field between its slashes.
DateParts(f) == SplitOn(f, "/")

\* A date field of the form M/D/YYYY, resp. M/D, whose month and day exist.
FullYearForm(f) == f = TrimSpace(f) /\ Len(DateParts(f)) = 3 /\ FormatValidDate(f)

YearOmittedForm(f) == f = TrimSpace(f) /\ Len(DateParts(f)) = 2 /\ FormatValidDate(f)

\* C11: a date field M/D/YYYY with an existing month and day is accepted and
\* yields the date of year YYYY, month M, day D.
C11_FullYearDateAccepted ==
    (fieldKind = "date" /\ FullYearForm(field)) =>
        /\ fieldResult.ok
        /\ fieldResult.val = [year  |-> DigitsVal(DateParts(field)[3]),
                              month |-> DigitsVal(DateParts(field)[1]),
                              day   |-> DigitsVal(DateParts(field)[2])]

\* What the parser does with a date field that carries a year: the loader's
\* year is appended all the same, and the field is rejected.
FullYearDateRejected ==
    (fieldKind = "date" /\ Len(DateParts(field)) = 3) => ~fieldResult.ok

FullYearDateRejectedWitness ==
    fieldKind = "date" /\ FullYearForm(field) /\ ~fieldResult.ok

\* ------------------------------------------------------------------------
\* More properties of LoadTransactions (checked under SpecLoad)
\* ------------------------------------------------------------------------

\* The date field of the data line the k-th transaction was parsed from.
DateFieldOf(k) == csvRecord(input[Records[k + 1]])[2]

\* Every transaction parsed from a row with an M/D date has that month and
\* day in the year the loader holds.
YearOmittedRowsGetLoaderYear ==
    loadPc \in {"loop", "done"} =>
        \A k \in 1..Len(transactions) :
            YearOmittedForm(DateFieldOf(k)) =>
                transactions[k].Date =
                    [year  |-> currentYear,
                     month |-> DigitsVal(DateParts(DateFieldOf(k))[1]),
                     day   |-> DigitsVal(DateParts(DateFieldOf(k))[2])]

\* C12: an M/D row yields the date (Y, M, D) where Y is the year the clock
\* showed when the loader was constructed: Y is set from the clock at
\* construction, never changes afterwards, and is the year of every M/D row
\* wherever the clock stands when the row is parsed.
C12_YearCapturedAtConstruction ==
    /\ []YearOmittedRowsGetLoaderYear
    /\ [][/\ (loadPc = "unbuilt" /\ loadPc' # "unbuilt") => currentYear' = clock
          /\ loadPc # "unbuilt" => currentYear' = currentYear]_vars

\* C12 witness: a load that returned an M/D row dated in the loader's year
\* after the clock had moved to the next year.
C12_Witness ==
    /\ loadPc = "done" /\ loadErr = NoErr
    /\ clock = currentYear + 1
    /\ Len(loadResult.list) >= 1
    /\ YearOmittedForm(DateFieldOf(1))
    /\ loadResult.list[1].Date.year = currentYear

\* C13: every transaction of a list LoadTransactions returns has a strictly
\* positive id and a date that is not the zero date.
C13_NoZeroIDNoZeroDate ==
    (loadPc = "done" /\ ~loadResult.nil) =>
        \A k \in 1..Len(loadResult.list) :
            /\ loadResult.list[k].ID > 0
            /\ loadResult.list[k].Date # ZeroDate

\* The half of C13 that holds: the date of a returned transaction is set.
ReturnedDatesAreSet ==
    \A k \in 1..Len(loadResult.list) : loadResult.list[k].Date # ZeroDate

\* A data line whose id field is 0 was turned into a transaction.
ZeroIDReturned ==
    /\ loadPc = "done" /\ loadErr = NoErr
    /\ \E k \in 1..Len(loadResult.list) : loadResult.list[k].ID = 0

\* C14: the error of a data line that fails validation carries the 1-based
\* number of that line in the input stream, whatever lines precede it.
C14_ErrorLineIsStreamLine ==
    (loadPc = "done" /\ loadErr.kind = "validation") => loadErr.line = pos

\* What the reported number is: one more than the number of records read
\* before the offending one, which is its line number only when no blank
\* line precedes it.
ErrorLineIsRecordOrdinal ==
    (loadPc = "done" /\ loadErr.kind = "validation") =>
        /\ loadErr.line = Len(SelectSeq(Records, LAMBDA k : k < pos)) + 1
        /\ (\A k \in 1..pos : input[k] # <<>>) => loadErr.line = pos

\* A validation error that reports a line before the offending one.
ErrorLineBeforeOffendingLine ==
    loadPc = "done" /\ loadErr.kind = "validation" /\ loadErr.line < pos

\* The number of comma-separated fields of the line the reader stopped at.
FieldCountAtPos == Len(FormatFields(input[pos]))

\* C15: a data line that has not exactly 3 fields ends the load with an error
\* of the class "CSV parsing error" and a nil result; a line with 3 fields
\* and a bad field ends it with an error of the other class, "record
\* validation error", and a nil result as well.
C15_FieldCountIsItsOwnErrorClass ==
    (loadPc = "done" /\ pos \in DataPositions) =>
        /\ FieldCountAtPos # 3 => (loadErr.kind = "csv" /\ loadResult = Nil)
        /\ loadErr.kind = "csv" => FieldCountAtPos # 3
        /\ loadErr.kind = "validation" =>
              (FieldCountAtPos = 3 /\ loadErr.field # "count" /\ loadResult = Nil)

\* C15 witness: a load that parsed a valid line and then failed with a CSV
\* parsing error on a line of four fields.
C15_Witness ==
    /\ loadPc = "done" /\ loadErr.kind = "csv" /\ loadResult = Nil
    /\ pos \in DataPositions
    /\ input[pos] = FourFieldLine
    /\ Len(transactions) = 1

\* The same with a line of two fields.
FewerFieldsWitness ==
    /\ loadPc = "done" /\ loadErr.kind = "csv" /\ loadResult = Nil
    /\ pos \in DataPositions
    /\ input[pos] = TwoFieldLine

\* C16 as stated: a load ended by cancellation returns nil, and the error of
\* the loop references the last line read before the abort.
C16_CancelReferencesLastLineRead ==
    (loadPc = "done" /\ loadErr.kind = "cancelled") =>
        /\ loadResult = Nil
        /\ loadErr.line = pos

\* C16 amended: a cancellation raised before the call ends it at the check
\* before the header, with nothing read and an error that names no line; one
\* raised later ends it at the check before the next data record, with no
\* further record read and an error that names lineNumber, which is 2 plus
\* the number of data records parsed, the ordinal of the record that would
\* have been read next.  The result is nil in both cases, and a load that
\* was cancelled never returns a list.
C16_CancelStopsAtNextCheck ==
    /\ [](loadPc = "done" =>
            /\ loadErr.kind = "context" => (loadResult = Nil /\ pos = 0 /\ ctxDone)
            /\ loadErr.kind = "cancelled" =>
                  /\ loadResult = Nil /\ ctxDone
                  /\ loadErr.line = Len(transactions) + 2
                  /\ loadErr.line = Len(SelectSeq(Records, LAMBDA k : k <= pos)) + 1
            /\ ctxDone => (loadErr # NoErr /\ loadResult = Nil))
    /\ [][(ctxDone /\ loadVars' # loadVars) =>
            /\ loadPc = "idle" => (loadPc' = "done" /\ loadErr'.kind = "context")
            /\ loadPc = "loop" =>
                  (loadPc' = "done" /\ loadErr'.kind = "cancelled" /\ pos' = pos)]_vars

\* C16 witness: a load cancelled after the header and one data line were
\* read; the error names line 3, the line read last is line 2.
C16_Witness ==
    /\ loadPc = "done" /\ loadErr.kind = "cancelled"
    /\ Len(transactions) = 1
    /\ pos = 2
    /\ loadErr.line = 3

\* ------------------------------------------------------------------------
\* Properties of parseAmountOptimized (checked under SpecParse)
\* ------------------------------------------------------------------------

\* An unsigned numeric literal: digits with at most one point among them and
\* at least one digit.
UnsignedLiteral(str) ==
    /\ \A k \in 1..Len(str) : str[k] \in DigitChars \cup {"."}
    /\ Cardinality({k \in 1..Len(str) : str[k] = "."}) <= 1
    /\ \E k \in 1..Len(str) : str[k] \in DigitChars

StartsWith(str, c) == str # <<>> /\ str[1] = c

\* The field without its leading sign, if it has one.
Unsigned(str) == IF StartsWith(str, "+") \/ StartsWith(str, "-") THEN Tail(str) ELSE str

\* The value of an unsigned literal, in hundredths.
UnsignedValue(str) ==
    LET parts == SplitOn(str, ".")
        frac  == IF Len(parts) = 1 \/ parts[2] = <<>> THEN 0
                 ELSE IF Len(parts[2]) = 1 THEN 10 * DigitsVal(parts[2])
                 ELSE DigitsVal(SubSeq(parts[2], 1, 2))
    IN  100 * DigitsVal(parts[1]) + frac

\* C17: an amount field is accepted iff it is one optional sign followed by
\* an unsigned literal; the value is that of the literal, negated iff the
\* field starts with "-", so a leading "+" changes nothing.
C17_AmountIsSignThenLiteral ==
    fieldKind = "amount" =>
        /\ fieldResult.ok <=> UnsignedLiteral(Unsigned(field))
        /\ fieldResult.ok =>
              fieldResult.val = IF StartsWith(field, "-")
                                   THEN 0 - UnsignedValue(Unsigned(field))
                                   ELSE UnsignedValue(Unsigned(field))

\* What the parser accepts: after one leading "+" is dropped, the rest may
\* still carry a sign of its own.
AmountAcceptsSignAfterPlus ==
    fieldKind = "amount" =>
        LET rest == IF StartsWith(field, "+") THEN Tail(field) ELSE field
        IN  /\ fieldResult.ok <=> UnsignedLiteral(Unsigned(rest))
            /\ fieldResult.ok =>
                  fieldResult.val = IF StartsWith(rest, "-")
                                       THEN 0 - UnsignedValue(Unsigned(rest))
                                       ELSE UnsignedValue(Unsigned(rest))

\* A field with two sign characters that was accepted, with a negative value
\* although it starts with "+".
TwoSignsAccepted ==
    /\ fieldKind = "amount" /\ field = <<"+", "-", "5">>
    /\ fieldResult = Ok(0 - 500)

\* Fields with one sign or none are treated as C17 says.
OneSignAmountsCorrect ==
    (fieldKind = "amount" /\ ~(StartsWith(field, "+") /\ Len(field) >= 2
                                /\ field[2] \in {"+", "-"}))
        => C17_AmountIsSignThenLiteral

\* ------------------------------------------------------------------------
\* Properties of CalculateSummary (checked under SpecLoadSum and SpecSum)
\* ------------------------------------------------------------------------

\* The input holds a header line of three fields and no data line.
HeaderOnly ==
    Len(Records) = 1 /\ Len(FormatFields(input[Records[1]])) = 3

\* C18: a header-only input loads without error into an empty list that is
\* not nil, and the summary of an empty list has a total balance of 0 and a
\* YearlyData map that is not nil and has no entry.
C18_HeaderOnlyGivesEmptySummary ==
    /\ (LoadRan /\ HeaderOnly) =>
          /\ loadErr = NoErr
          /\ ~loadResult.nil
          /\ loadResult.list = <<>>
    /\ (sumPc = "done" /\ sumIn = <<>>) =>
          /\ summary.TotalBalance = 0
          /\ ~summary.YearlyData.nil
          /\ DOMAIN summary.YearlyData.entries = {}

\* C18 witness: a header-only input was loaded and its empty list summarised.
C18_Witness ==
    /\ LoadRan /\ HeaderOnly
    /\ loadErr = NoErr /\ loadResult = Slice(<<>>)
    /\ sumPc = "done" /\ sumIn = <<>>
    /\ summary = [TotalBalance |-> 0, YearlyData |-> MakeMap(<<>>)]

\* The sum of the amounts of a list, accumulated from 0 in the order of the
\* list: the sum of the list without its last element, plus the last amount.
RECURSIVE SequentialSum(_)
SequentialSum(txnList) ==
    IF txnList = <<>> THEN 0
    ELSE FAdd(SequentialSum(SubSeq(txnList, 1, Len(txnList) - 1)),
              txnList[Len(txnList)].Amount)

\* The list with every date replaced by date: all of it in one bucket.
Redated(txnList, date) ==
    [k \in 1..Len(txnList) |-> [txnList[k] EXCEPT !.Date = date]]

\* C19: the total balance is the sum of all amounts accumulated left to right
\* from 0, and it is the same whatever dates the transactions carry: the
\* total of a list is that of the same amounts all put in one bucket.
C19_TotalIsSequentialSum ==
    sumPc = "done" =>
        /\ summary.TotalBalance = SequentialSum(sumIn)
        /\ \A date \in SumDates :
              SummaryOf(Redated(sumIn, date)).TotalBalance = summary.TotalBalance

\* C19 witness: three transactions in three different buckets whose sum
\* depends on the order of accumulation; the total is the left-to-right one.
C19_Witness ==
    /\ sumPc = "done"
    /\ AmountsOf(sumIn) = <<2 ^ Precision, 1, 1>>
    /\ Cardinality({sumIn[k].Date : k \in 1..Len(sumIn)}) = 3
    /\ summary.TotalBalance = 2 ^ Precision
    /\ TotalFromTheRight(sumIn) # summary.TotalBalance

\* The positions of the transactions of the list dated in month m of year y.
InBucket(txnList, y, m) ==
    {k \in 1..Len(txnList) : txnList[k].Date.year = y /\ txnList[k].Date.month = m}

\* The buckets of a YearlyData map: its <<year, month>> keys.
BucketKeys(yearlyData) ==
    UNION {{<<y, m>> : m \in DOMAIN yearlyData.entries[y].entries} :
              y \in DOMAIN yearlyData.entries}

BucketCount(yearlyData, key) ==
    yearlyData.entries[key[1]].entries[key[2]].TransactionCount

RECURSIVE CountSum(_, _)
CountSum(yearlyData, keys) ==
    IF keys = {} THEN 0
    ELSE LET key == CHOOSE c \in keys : TRUE
         IN  BucketCount(yearlyData, key) + CountSum(yearlyData, keys \ {key})

\* C20: YearlyData has a bucket for a year and month iff a transaction is
\* dated in it, the bucket's count is the number of those transactions, no
\* year has an empty month map, and the counts add up to the number of
\* transactions.
C20_BucketsCountTheirTransactions ==
    sumPc = "done" =>
        LET yd == summary.YearlyData
        IN  /\ ~yd.nil
            /\ \A y \in DOMAIN yd.entries \cup {d.year : d \in SumDates} :
                  \A m \in 1..12 :
                     /\ <<y, m>> \in BucketKeys(yd) <=> InBucket(sumIn, y, m) # {}
                     /\ <<y, m>> \in BucketKeys(yd) =>
                           BucketCount(yd, <<y, m>>) = Cardinality(InBucket(sumIn, y, m))
            /\ \A key \in BucketKeys(yd) : BucketCount(yd, key) > 0
            /\ \A y \in DOMAIN yd.entries :
                  ~yd.entries[y].nil /\ DOMAIN yd.entries[y].entries # {}
            /\ CountSum(yd, BucketKeys(yd)) = Len(sumIn)

\* C20 witness: three transactions, two of them in one bucket and the third
\* in another year; the summary has two buckets, with counts 2 and 1.
C20_Witness ==
    /\ sumPc = "done" /\ Len(sumIn) = 3
    /\ BucketKeys(summary.YearlyData) = {<<2023, 7>>, <<2024, 7>>}
    /\ BucketCount(summary.YearlyData, <<2023, 7>>) = 2
    /\ BucketCount(summary.YearlyData, <<2024, 7>>) = 1

\* The transactions of the list dated in month key[2] of year key[1], in the
\* order of the list, and among them those with a negative, resp. positive,
\* amount.
BucketTxns(txnList, key) ==
    SelectSeq(txnList, LAMBDA t : t.Date.year = key[1] /\ t.Date.month = key[2])

Negatives(txnList) == SelectSeq(txnList, LAMBDA t : t.Amount < 0)

Positives(txnList) == SelectSeq(txnList, LAMBDA t : t.Amount > 0)

Bucket(yearlyData, key) == yearlyData.entries[key[1]].entries[key[2]]

\* avg is the mean of the amounts of part exactly: avg times their number,
\* rounded as a product is, is their sum; 0 if there are none.
ExactMean(avg, part) ==
    IF part = <<>> THEN avg = 0
    ELSE FRound(avg * Len(part)) = SequentialSum(part)

\* avg is the mean of the amounts of part up to the rounding of the
\* division: avg times their number is within half a spacing per element of
\* their sum; 0 if there are none.
MeanWithinRounding(avg, part) ==
    IF part = <<>> THEN avg = 0
    ELSE 2 * Abs(avg * Len(part) - SequentialSum(part))
            <= Len(part) * Ulp(Abs(avg), 1)

WithoutZeros(txnList) == SelectSeq(txnList, LAMBDA t : t.Amount # 0)

\* C22: a zero-amount transaction counts in its bucket and enters neither
\* average: every bucket has the averages it has in the summary of the list
\* without the zero-amount transactions, and a count larger by the number of
\* its zero-amount transactions; a bucket of zero-amount transactions only
\* has both averages 0 and a count that is not 0.
C22_ZeroAmountsOnlyCount ==
    sumPc = "done" =>
        LET ref == SummaryOf(WithoutZeros(sumIn)).YearlyData
        IN  \A key \in BucketKeys(summary.YearlyData) :
                LET b     == Bucket(summary.YearlyData, key)
                    zeros == Len(BucketTxns(sumIn, key))
                                - Len(WithoutZeros(BucketTxns(sumIn, key)))
                IN  IF key \in BucketKeys(ref)
                       THEN /\ b.AverageDebit = Bucket(ref, key).AverageDebit
                            /\ b.AverageCredit = Bucket(ref, key).AverageCredit
                            /\ b.TransactionCount =
                                  Bucket(ref, key).TransactionCount + zeros
                       ELSE /\ b.AverageDebit = 0
                            /\ b.AverageCredit = 0
                            /\ b.TransactionCount = zeros
                            /\ b.TransactionCount > 0

\* C22 witness: a bucket holding a credit of 1 between two zero amounts, with
\* count 3 and average credit 1.
C22_Witness ==
    /\ sumPc = "done"
    /\ AmountsOf(sumIn) = <<0, 1, 0>>
    /\ BucketKeys(summary.YearlyData) = {<<2023, 7>>}
    /\ Bucket(summary.YearlyData, <<2023, 7>>) =
          [TransactionCount |-> 3, AverageDebit |-> 0, AverageCredit |-> 1]

\* A bucket of zero amounts only.
OnlyZerosWitness ==
    /\ sumPc = "done"
    /\ AmountsOf(sumIn) = <<0, 0>>
    /\ BucketKeys(summary.YearlyData) = {<<2024, 7>>}
    /\ Bucket(summary.YearlyData, <<2024, 7>>) =
          [TransactionCount |-> 2, AverageDebit |-> 0, AverageCredit |-> 0]

\* ---------------------------------------------------------------------------
\* Files without a delivery address
\* ---------------------------------------------------------------------------

\* A finished record of a valid S3 object whose tags were read and carry an
\* account id but no account email.
NoDeliveryAddress(h) ==
    /\ h.valid
    /\ h.get # "err"
    /\ h.get # "none"
    /\ h.account # ""
    /\ h.email = ""

\* C23: a finished record whose object has no account email is parsed, and
\* unless the loader or the store fails it is persisted and summarised, the
\* mailer is never called for it and the record is counted as a success.
C23_NoAddressSkipsNotification ==
    \A k \in 1..Len(log) :
        NoDeliveryAddress(log[k]) =>
            /\ log[k].get = "ok"
            /\ log[k].load # "none"
            /\ log[k].send = "none"
            /\ (log[k].load = "ok" /\ log[k].save = "ok") =>
                   /\ log[k].summary = 1
                   /\ log[k].result = "ok"

\* What the code does with such an object: Get fails on the missing tag, so
\* nothing is parsed, persisted or summarised and the record fails.
NoAddressFailsAtGet ==
    \A k \in 1..Len(log) :
        NoDeliveryAddress(log[k]) =>
            /\ log[k].get = "missing"
            /\ log[k].load = "none"
            /\ log[k].save = "none"
            /\ log[k].summary = 0
            /\ log[k].send = "none"
            /\ log[k].result = "failed"

NoAddressWitness == \E k \in 1..Len(log) : NoDeliveryAddress(log[k])

\* Every record that got past Get has a delivery address, so the mailer is
\* called for every record that reaches the notification stage.
DeliveryAddressAlwaysSet ==
    \A h \in Histories : h.get = "ok" => h.email # "" /\ h.account # ""

\* ---------------------------------------------------------------------------
\* The account id of the persisted transactions
\* ---------------------------------------------------------------------------

\* list is the loaded list with the account id written on every transaction
\* and nothing else changed.
LoadedWithAccount(list, loaded, accountID) ==
    /\ Len(list) = Len(loaded)
    /\ \A k \in 1..Len(list) :
          /\ list[k].AccountID = accountID
          /\ list[k].ID = loaded[k].ID
          /\ list[k].Date = loaded[k].Date
          /\ list[k].Amount = loaded[k].Amount

\* C24: the transactions the loader returns have an empty account id; the
\* list ProcessFile holds from the load on, and every list it handed to Save,
\* is the loaded list with the account id of the file's metadata on every
\* transaction and the same id, date and amount.
C24_AccountIDWrittenBeforeSave ==
    /\ \A h \in Histories :
          \A k \in 1..Len(h.loaded.list) : h.loaded.list[k].AccountID = ""
    /\ pipePc \in {"save", "summary", "send"} =>
          /\ summaryFile.AccountID \in AccountIDs
          /\ cur.account = summaryFile.AccountID
          /\ LoadedWithAccount(txns, cur.loaded.list, summaryFile.AccountID)
    /\ \A h \in Histories :
          h.save # "none" =>
             /\ h.account \in AccountIDs
             /\ ~h.saved.nil
             /\ LoadedWithAccount(h.saved.list, h.loaded.list, h.account)

C24_Witness ==
    /\ pipePc = "done"
    /\ Len(log) = 2
    /\ log[1].save = "ok"
    /\ log[1].account = "A1"
    /\ Len(log[1].saved.list) = MaxTxns
    /\ log[2].save = "err"
    /\ log[2].account = "A2"
    /\ Len(log[2].saved.list) = MaxTxns
    /\ log[2].saved.list[1].Date.month = 1
    /\ log[2].saved.list[1].Amount < 0

\* The loader's own results: every transaction LoadTransactions returns has
\* an empty account id.
LoaderLeavesAccountIDEmpty ==
    \A k \in 1..Len(loadResult.list) : loadResult.list[k].AccountID = ""

LoaderReturnedTransactions == loadPc = "done" /\ Len(loadResult.list) = 2

\* ---------------------------------------------------------------------------
\* The order of the stages of ProcessFile
\* ---------------------------------------------------------------------------

\* The stages of ProcessFile, numbered in the order of the code.
StageNo(pc) ==
    CASE pc = "get" -> 1
      [] pc = "load" -> 2
      [] pc = "save" -> 3
      [] pc = "summary" -> 4
      [] pc = "send" -> 5
      [] OTHER -> 0

\* The stages a history shows as called.
Called(h) ==
    (IF h.get # "none" THEN {1} ELSE {})
      \cup (IF h.load # "none" THEN {2} ELSE {})
      \cup (IF h.save # "none" THEN {3} ELSE {})
      \cup (IF h.summary > 0 THEN {4} ELSE {})
      \cup (IF h.send # "none" THEN {5} ELSE {})

\* The stages a history shows as having succeeded.
Succeeded(h) ==
    (IF h.get = "ok" THEN {1} ELSE {})
      \cup (IF h.load = "ok" THEN {2} ELSE {})
      \cup (IF h.save = "ok" THEN {3} ELSE {})
      \cup (IF h.summary > 0 THEN {4} ELSE {})
      \cup (IF h.send = "ok" THEN {5} ELSE {})

\* Every stage called for a record was called after all the stages before
\* it had succeeded; the summary was computed once, from the list that was
\* persisted; what was mailed and what was returned is that summary.
StagesInOrder(h) ==
    /\ \A st \in Called(h) : 1..(st - 1) \subseteq Succeeded(h)
    /\ h.summary <= 1
    /\ h.summary = 1 => h.save = "ok" /\ h.summarized = h.saved
    /\ h.send # "none" =>
          /\ h.save = "ok"
          /\ h.summary = 1
          /\ h.mailed # ZeroSummary
    /\ h.result = "ok" =>
          /\ Succeeded(h) = 1..5
          /\ h.returned = h.mailed

C26_State ==
    /\ \A h \in Histories : StagesInOrder(h)
    /\ StageNo(pipePc) > 0 =>
          /\ Called(cur) = 1..(StageNo(pipePc) - 1)
          /\ Succeeded(cur) = Called(cur)

\* A step of ProcessFile goes from a stage to the next one or ends the
\* record; it leaves what the history holds of the earlier stages as it is;
\* the summary stage computes the summary of the persisted list, and the send
\* stage mails and returns exactly that summary.
C26_Step ==
    /\ StageNo(pipePc) > 0 =>
          /\ StageNo(pipePc') = StageNo(pipePc) + 1 \/ pipePc' = "loop"
          /\ pipePc' # "loop" => Called(cur') = Called(cur) \cup {StageNo(pipePc)}
          /\ pipePc' = "loop" =>
                /\ Len(log') = Len(log) + 1
                /\ Called(log'[Len(log')]) \subseteq Called(cur) \cup {StageNo(pipePc)}
                /\ Succeeded(cur) \subseteq Succeeded(log'[Len(log')])
    /\ pipePc = "summary" =>
          /\ txns = cur.saved.list
          /\ summaryData' = SummaryOf(cur.saved.list)
    /\ pipePc = "send" =>
          /\ log'[Len(log')].mailed = summaryData
          /\ log'[Len(log')].result = "ok" => log'[Len(log')].returned = summaryData

\* C26: the stages of ProcessFile run in the order Get, LoadTransactions,
\* Save, CalculateSummary, Send, each at most once and only after all the
\* earlier ones succeeded; the mail is sent only after Save succeeded, and the
\* summary mailed is the one returned, computed from the persisted list.
C26_StagesRunInOrder == [][C26_Step]_vars /\ []C26_State

\* C26 witness: an event whose first record went through all five stages
\* with a non-empty list, and whose second record failed at the mailer after
\* the save.
C26_Witness ==
    /\ pipePc = "done"
    /\ Len(log) = 2
    /\ log[1].result = "ok"
    /\ Len(log[1].saved.list) = MaxTxns
    /\ log[1].mailed = SummaryOf(log[1].saved.list)
    /\ log[1].mailed.TotalBalance < 0
    /\ log[2].send = "err"
    /\ log[2].save = "ok"
    /\ log[2].result = "failed"

\* ---------------------------------------------------------------------------
\* The statistics of a Handler invocation
\* ---------------------------------------------------------------------------

\* Handler is running, or has returned, with a processor.
HandlerRan == pipePc # "idle" /\ initError = NoErr

\* C29: while Handler runs with a processor the finished records are the
\* first recIdx - 1 records of the event, one history each in event order,
\* counted once as a success or as a failure, with one accumulated error per
\* failure; when it has returned, all R records are finished, SuccessCount +
\* FailureCount = TotalRecords = R, and the returned error is nil.
C29_State ==
    HandlerRan =>
        /\ stats.TotalRecords = Len(event)
        /\ Len(log) = stats.SuccessCount + stats.FailureCount
        /\ Len(stats.Errors) = stats.FailureCount
        /\ \A k \in 1..Len(log) :
              /\ log[k].valid = validateS3Record(event[k])
              /\ log[k].result \in {"ok", "failed"}
        /\ \A k \in 1..Len(stats.Errors) :
              /\ stats.Errors[k] + 1 \in 1..Len(log)
              /\ log[stats.Errors[k] + 1].result = "failed"
              /\ \A m \in 1..(k - 1) : stats.Errors[m] < stats.Errors[k]
        /\ handlerErr = NoErr
        /\ pipePc # "done" => Len(log) = recIdx - 1 /\ recIdx <= Len(event) + 1
        /\ pipePc = "done" =>
              /\ Len(log) = Len(event)
              /\ stats.SuccessCount + stats.FailureCount = stats.TotalRecords

\* Within an invocation the finished records grow by one at a time, each
\* added at the end, and a finished record stays as it is.
C29_Step ==
    (HandlerRan /\ pipePc # "done") =>
        /\ Len(log') \in {Len(log), Len(log) + 1}
        /\ \A k \in 1..Len(log) : log'[k] = log[k]
        /\ recIdx' = Len(log') + 1
        /\ event' = event

C29_EveryRecordCountedOnce == [][C29_Step]_vars /\ []C29_State

\* C29 witness: Handler returned nil for an event all of whose records failed.
C29_Witness ==
    /\ pipePc = "done"
    /\ HandlerRan
    /\ Len(event) = MaxRecords
    /\ stats.FailureCount = MaxRecords
    /\ stats.SuccessCount = 0
    /\ handlerErr = NoErr

\* The same for an event whose first record failed and whose second succeeded.
FailureThenSuccessWitness ==
    /\ pipePc = "done"
    /\ HandlerRan
    /\ Len(event) = 2
    /\ stats.Errors = <<0>>
    /\ stats.SuccessCount = 1

\* ---------------------------------------------------------------------------
\* Concurrent calls of getProcessor (checked under SpecOnce)
\* ---------------------------------------------------------------------------

\* The pair the first buildProcessor produced.
BuiltPair ==
    IF firstBuilt THEN [processor |-> "processor", initError |-> NoErr]
    ELSE [processor |-> "nil", initError |-> InitError]

\* C30: buildProcessor runs at most once; a goroutine reads the package
\* variables only after that run has written both of them, so every call that
\* has returned holds the pair that run produced, and all calls hold the same
\* pair; a failed initialisation stays failed.
C30_BuildOnceSamePair ==
    /\ builds <= 1
    /\ \A g \in Goroutines :
          /\ gPc[g] \in {"read", "readError", "returned"} =>
                /\ processorOnce
                /\ builds = 1
                /\ [processor |-> processor, initError |-> initError] = BuiltPair
          /\ gPc[g] = "returned" => got[g] = BuiltPair
    /\ \A g, h \in Goroutines :
          (gPc[g] = "returned" /\ gPc[h] = "returned") => got[g] = got[h]
    /\ Cardinality({g \in Goroutines : gPc[g] \in {"processor", "initError", "store", "unlock"}}) <= 1

\* C30 witness: every goroutine has returned from getProcessor after an
\* initialisation that failed.
C30_Witness ==
    /\ \A g \in Goroutines : gPc[g] = "returned"
    /\ builds = 1
    /\ ~firstBuilt
    /\ \A g \in Goroutines : got[g].initError = InitError

\* A goroutine waits for the mutex while another one is between the two
\* assignments.
WaitsDuringBuildWitness ==
    \E g, h \in Goroutines :
        /\ gPc[g] = "initError"
        /\ gPc[h] = "lock"

====
